---- MODULE Spec2Model ----
(***************************************************************************)
(* Turn engine of chart-arcade (src/src/stores/gameStore.ts): the zustand  *)
(* game store, its actions loadStock, switchStock, skip, buy, sell and     *)
(* the helpers they call.                                                  *)
(*                                                                         *)
(* Numbers.  The store computes with IEEE doubles; the model computes with *)
(* exact rationals <<n, d>> in lowest terms (d > 0), so rounding error is  *)
(* not modelled.  Date.now() is modelled as one frozen instant (DateNow).  *)
(* null is the record Null for objects, NullIndex for a bar index,         *)
(* NullPrice for a price, NullTime for a timestamp and the string "null"   *)
(* for names.  Arrays are 0-based in the source and 1-based here: BarAt    *)
(* does the shift.                                                         *)
(*                                                                         *)
(* Specifications.  Spec: one step per call of a public action.            *)
(* RecordSpec: recordTurnOutcome called on its own.  LongSpec: one long    *)
(* game of skips on an instrument the loader accepts.  StepSpec: skip, buy *)
(* and sell one set() at a time.  DirectionSpec: the two copies of         *)
(* getDirection (the second is in src/src/utils/gameLogic.ts).             *)
(* StartIndexSpec: the two start-index selectors.  IndicatorSpec: the      *)
(* indicators of src/src/utils/indicators.ts.  OutcomeSpec: a short game   *)
(* with calculateOutcome called between the turns.  MACDSpec:              *)
(* calculateMACD called once.  AppSpec: the App component with its key     *)
(* handler and the data layer, one step per browser event.                 *)
(***************************************************************************)
EXTENDS Integers, Sequences, FiniteSets, Bags, TLC

VARIABLES
    currentStock, currentBarIndex, cash, position, trades, holdingPeriods,
    turnOutcomes, turnNumber, turnStartTime, sessionStats, isLoading,
    lastAction, lastOutcome, showRevealCard, revealedStock,
    lastCall,       \* history: the call made by the last step and how it ended
    cashAtLoad,     \* history: cash at the last loadStock or reset
    startIndexAtLoad,   \* history: the startIndex of the last loadStock
    pc,             \* the set() a running skip/buy/sell will make next
    pending,        \* the locals of the running skip/buy/sell
    probe,          \* the last call of a pure helper and its results
    stockIndex,         \* data layer: the tickers of the metadata index
    stockDataCache,     \* data layer: the tickers whose data is cached
    preloadingTicker,   \* data layer: the ticker a preload is fetching
    inFlight,       \* the bag of promises the App and data layer await
    showSwitchConfirm,  \* App: the switch confirmation modal is open
    mounted         \* App: the mount effect has run

appVars == <<stockIndex, stockDataCache, preloadingTicker, inFlight,
             showSwitchConfirm, mounted>>

storeVars == <<currentStock, currentBarIndex, cash, position, trades,
               holdingPeriods, turnOutcomes, turnNumber, turnStartTime,
               sessionStats, isLoading, lastAction, lastOutcome,
               showRevealCard, revealedStock>>

vars == <<currentStock, currentBarIndex, cash, position, trades,
          holdingPeriods, turnOutcomes, turnNumber, turnStartTime,
          sessionStats, isLoading, lastAction, lastOutcome,
          showRevealCard, revealedStock, lastCall, cashAtLoad,
          startIndexAtLoad, pc, pending, probe, appVars>>

(***************************************************************************)
(* Exact rational arithmetic.                                              *)
(***************************************************************************)
Abs(x) == IF x < 0 THEN -x ELSE x

RECURSIVE GCD(_, _)
GCD(a, b) == IF b = 0 THEN a ELSE GCD(b, a % b)

Norm(n, d) == LET g == GCD(Abs(n), d) IN <<n \div g, d \div g>>

R(n) == <<n, 1>>

RNeg(a) == <<-a[1], a[2]>>

RAdd(a, b) ==
    LET g == GCD(a[2], b[2])
    IN  Norm(a[1] * (b[2] \div g) + b[1] * (a[2] \div g), (a[2] \div g) * b[2])

RSub(a, b) == RAdd(a, RNeg(b))

RMul(a, b) ==
    LET g1 == GCD(Abs(a[1]), b[2])
        g2 == GCD(Abs(b[1]), a[2])
    IN  Norm((a[1] \div g1) * (b[1] \div g2), (a[2] \div g2) * (b[2] \div g1))

RInv(a) == IF a[1] > 0 THEN <<a[2], a[1]>> ELSE <<-a[2], -a[1]>>

RDiv(a, b) == RMul(a, RInv(b))

\* n1/d1 < n2/d2 by comparing continued fractions (no products to overflow)
RECURSIVE FracLt(_, _, _, _)
FracLt(n1, d1, n2, d2) ==
    LET q1 == n1 \div d1
        q2 == n2 \div d2
        r1 == n1 % d1
        r2 == n2 % d2
    IN  IF q1 # q2 THEN q1 < q2
        ELSE IF r2 = 0 THEN FALSE
        ELSE IF r1 = 0 THEN TRUE
        ELSE FracLt(d2, r2, d1, r1)

RLt(a, b) == FracLt(a[1], a[2], b[1], b[2])

RLe(a, b) == ~RLt(b, a)

RZero == R(0)

(***************************************************************************)
(* Constants of the store.                                                 *)
(***************************************************************************)
INITIAL_CASH == R(10000)

EPSILON == <<1, 2000>>              \* 0.0005

SHARE_EPSILON == <<1, 10000>>       \* the literal 0.0001 in sell

DateNow == 0

Null == [null |-> TRUE]

NullStock == "null"

NullIndex == -1

NullPrice == <<>>

NullTime == -1

(***************************************************************************)
(* Instruments.  Only the close of a bar is read by the turn engine.       *)
(* Stock "A" carries the closes 100, 105, 105, 84 at bars 60..63 (an up,   *)
(* a flat and a down move; 63 is its last bar); stock "B" is a very        *)
(* high-priced series played from its last but one bar, so that the end of *)
(* the data is two turns away.                                             *)
(***************************************************************************)
Tickers == {"A", "B"}

ClosesA ==
    [i \in 1..64 |-> IF i <= 61 THEN R(100) ELSE IF i <= 63 THEN R(105) ELSE R(84)]

ClosesB == <<R(100000000), R(50000000)>>

\* the bounds the loader puts on a start index (gameLogic.ts)
MIN_LOOKBACK_BARS == 60

MIN_FORWARD_BARS == 100

\* stock "L": the shortest series with a start index the loader accepts,
\* MIN_LOOKBACK_BARS <= 60 and 60 + MIN_FORWARD_BARS < 161, all closes equal
LongTicker == "L"

ClosesL == [i \in 1..(MIN_LOOKBACK_BARS + MIN_FORWARD_BARS + 1) |-> R(100)]

Bars ==
    [t \in Tickers \cup {LongTicker} |->
        LET c == IF t = "A" THEN ClosesA
                 ELSE IF t = "B" THEN ClosesB ELSE ClosesL
        IN  [i \in 1..Len(c) |-> [time |-> i - 1, close |-> c[i]]]]

StartIndexes(t) == IF t = "A" THEN {60} ELSE {0}

HasBar(t, i) == i + 1 \in DOMAIN Bars[t]

BarAt(t, i) == Bars[t][i + 1]

(***************************************************************************)
(* Bounds of the exploration.                                              *)
(***************************************************************************)
MaxTurns == 3

MaxCharts == 2

Percentages == {R(0), R(50), R(100), R(101)}

(***************************************************************************)
(* The store as a record, and the initial state.                           *)
(***************************************************************************)
initialSessionStats ==
    [totalTurns |-> 0, totalTrades |-> 0, wins |-> 0, losses |-> 0,
     flats |-> 0, currentStreak |-> 0, bestStreak |-> 0, worstStreak |-> 0,
     chartsViewed |-> 0, decisionTimes |-> <<>>]

initialState ==
    [currentStock |-> NullStock,
     currentBarIndex |-> 0,
     cash |-> INITIAL_CASH,
     position |-> Null,
     trades |-> <<>>,
     holdingPeriods |-> <<>>,
     turnOutcomes |-> <<>>,
     turnNumber |-> 0,
     turnStartTime |-> NullTime,
     sessionStats |-> initialSessionStats,
     isLoading |-> FALSE,
     lastAction |-> "null",
     lastOutcome |-> Null,
     showRevealCard |-> FALSE,
     revealedStock |-> Null]

Store ==
    [currentStock |-> currentStock,
     currentBarIndex |-> currentBarIndex,
     cash |-> cash,
     position |-> position,
     trades |-> trades,
     holdingPeriods |-> holdingPeriods,
     turnOutcomes |-> turnOutcomes,
     turnNumber |-> turnNumber,
     turnStartTime |-> turnStartTime,
     sessionStats |-> sessionStats,
     isLoading |-> isLoading,
     lastAction |-> lastAction,
     lastOutcome |-> lastOutcome,
     showRevealCard |-> showRevealCard,
     revealedStock |-> revealedStock]

Install(s) ==
    /\ currentStock' = s.currentStock
    /\ currentBarIndex' = s.currentBarIndex
    /\ cash' = s.cash
    /\ position' = s.position
    /\ trades' = s.trades
    /\ holdingPeriods' = s.holdingPeriods
    /\ turnOutcomes' = s.turnOutcomes
    /\ turnNumber' = s.turnNumber
    /\ turnStartTime' = s.turnStartTime
    /\ sessionStats' = s.sessionStats
    /\ isLoading' = s.isLoading
    /\ lastAction' = s.lastAction
    /\ lastOutcome' = s.lastOutcome
    /\ showRevealCard' = s.showRevealCard
    /\ revealedStock' = s.revealedStock

(***************************************************************************)
(* Helpers of the store.                                                   *)
(***************************************************************************)
\* faulty variant: the thresholds are inclusive
getDirection_Inclusive(currentClose, nextClose) ==
    LET change == RDiv(RSub(nextClose, currentClose), currentClose)
    IN  IF RLe(EPSILON, change) THEN "up"
        ELSE IF RLe(change, RNeg(EPSILON)) THEN "down"
        ELSE "flat"

getDirection(currentClose, nextClose) ==
    LET change == RDiv(RSub(nextClose, currentClose), currentClose)
    IN  IF RLt(EPSILON, change) THEN "up"
        ELSE IF RLt(change, RNeg(EPSILON)) THEN "down"
        ELSE "flat"

\* faulty variant: the two answers are swapped
inferPrediction_Swapped(pos) ==
    IF pos # Null /\ RLt(RZero, pos.shares) THEN "down" ELSE "up"

inferPrediction(pos) ==
    IF pos # Null /\ RLt(RZero, pos.shares) THEN "up" ELSE "down"

Max(a, b) == IF a >= b THEN a ELSE b

Min(a, b) == IF a <= b THEN a ELSE b

decisionTimeOf(s) ==
    IF s.turnStartTime # NullTime THEN DateNow - s.turnStartTime ELSE 0

\* faulty variant: the card counts the bars shown so far
revealedStockOf_BarsSoFar(s) ==
    LET bars == Bars[s.currentStock]
    IN  [ticker |-> s.currentStock,
         startDate |-> bars[1].time,
         endDate |-> bars[Len(bars)].time,
         barCount |-> s.currentBarIndex + 1]

revealedStockOf(s) ==
    LET bars == Bars[s.currentStock]
    IN  [ticker |-> s.currentStock,
         startDate |-> bars[1].time,
         endDate |-> bars[Len(bars)].time,
         barCount |-> Len(bars)]

\* faulty variant: the period is closed at the bar it was opened at
closeLastHoldingPeriod_AtEntry(hps, barIndex, price) ==
    [idx \in DOMAIN hps |->
        IF idx = Len(hps) /\ hps[idx].exitBarIndex = NullIndex
        THEN [hps[idx] EXCEPT !.exitBarIndex = hps[idx].entryBarIndex,
                              !.exitPrice = price]
        ELSE hps[idx]]

\* the holding periods with the last one closed, when it is open
closeLastHoldingPeriod(hps, barIndex, price) ==
    [idx \in DOMAIN hps |->
        IF idx = Len(hps) /\ hps[idx].exitBarIndex = NullIndex
        THEN [hps[idx] EXCEPT !.exitBarIndex = barIndex, !.exitPrice = price]
        ELSE hps[idx]]

(***************************************************************************)
(* Internal actions of the store.                                          *)
(***************************************************************************)
\* faulty variant: the turn counter is forgotten
advanceBar_NoTurn(s) ==
    [s EXCEPT !.currentBarIndex = s.currentBarIndex + 1]

advanceBar(s) ==
    [s EXCEPT !.currentBarIndex = s.currentBarIndex + 1,
              !.turnNumber = s.turnNumber + 1]

calculateOutcome(s) ==
    IF s.currentStock = NullStock THEN Null
    ELSE IF ~HasBar(s.currentStock, s.currentBarIndex + 1) THEN Null
    ELSE LET currentBar == BarAt(s.currentStock, s.currentBarIndex)
             nextBar == BarAt(s.currentStock, s.currentBarIndex + 1)
             direction == getDirection(currentBar.close, nextBar.close)
             prediction == inferPrediction(s.position)
         IN  [turnNumber |-> s.turnNumber,
              barIndex |-> s.currentBarIndex,
              action |-> IF s.lastAction # "null" THEN s.lastAction ELSE "skip",
              positionBeforeAction |-> s.position,
              positionAfterAction |-> s.position,
              inferredPrediction |-> prediction,
              actualDirection |-> direction,
              isWin |-> IF direction # "flat"
                        THEN (IF prediction = direction THEN "true" ELSE "false")
                        ELSE "null",
              priceAtAction |-> currentBar.close,
              priceNextBar |-> nextBar.close]

\* faulty variant: a flat outcome ends the running streak
recordTurnOutcome_FlatResets(s, outcome) ==
    LET st == s.sessionStats
        stats ==
            IF outcome.isWin = "true" THEN
                LET cs == IF st.currentStreak > 0 THEN st.currentStreak + 1 ELSE 1
                IN  [st EXCEPT !.wins = st.wins + 1,
                               !.currentStreak = cs,
                               !.bestStreak = Max(st.bestStreak, cs)]
            ELSE IF outcome.isWin = "false" THEN
                LET cs == IF st.currentStreak < 0 THEN st.currentStreak - 1 ELSE -1
                IN  [st EXCEPT !.losses = st.losses + 1,
                               !.currentStreak = cs,
                               !.worstStreak = Min(st.worstStreak, cs)]
            ELSE [st EXCEPT !.flats = st.flats + 1, !.currentStreak = 0]
    IN  [s EXCEPT !.turnOutcomes = Append(s.turnOutcomes, outcome),
                  !.lastOutcome = outcome,
                  !.sessionStats = stats]

\* faulty variant: a win adds 1 to the streak whatever its sign
recordTurnOutcome_WinAddsOne(s, outcome) ==
    LET st == s.sessionStats
        stats ==
            IF outcome.isWin = "true" THEN
                LET cs == st.currentStreak + 1
                IN  [st EXCEPT !.wins = st.wins + 1,
                               !.currentStreak = cs,
                               !.bestStreak = Max(st.bestStreak, cs)]
            ELSE IF outcome.isWin = "false" THEN
                LET cs == IF st.currentStreak < 0 THEN st.currentStreak - 1 ELSE -1
                IN  [st EXCEPT !.losses = st.losses + 1,
                               !.currentStreak = cs,
                               !.worstStreak = Min(st.worstStreak, cs)]
            ELSE [st EXCEPT !.flats = st.flats + 1]
    IN  [s EXCEPT !.turnOutcomes = Append(s.turnOutcomes, outcome),
                  !.lastOutcome = outcome,
                  !.sessionStats = stats]

\* faulty variant: the best and the worst streak follow the running one
recordTurnOutcome_BestFollowsCurrent(s, outcome) ==
    LET st == s.sessionStats
        stats ==
            IF outcome.isWin = "true" THEN
                LET cs == IF st.currentStreak > 0 THEN st.currentStreak + 1 ELSE 1
                IN  [st EXCEPT !.wins = st.wins + 1,
                               !.currentStreak = cs,
                               !.bestStreak = cs,
                               !.worstStreak = 0]
            ELSE IF outcome.isWin = "false" THEN
                LET cs == IF st.currentStreak < 0 THEN st.currentStreak - 1 ELSE -1
                IN  [st EXCEPT !.losses = st.losses + 1,
                               !.currentStreak = cs,
                               !.bestStreak = 0,
                               !.worstStreak = cs]
            ELSE [st EXCEPT !.flats = st.flats + 1]
    IN  [s EXCEPT !.turnOutcomes = Append(s.turnOutcomes, outcome),
                  !.lastOutcome = outcome,
                  !.sessionStats = stats]

\* faulty variant: the best and the worst streak are compared with the
\* running streak of before the turn
recordTurnOutcome_StaleBest(s, outcome) ==
    LET st == s.sessionStats
        stats ==
            IF outcome.isWin = "true" THEN
                LET cs == IF st.currentStreak > 0 THEN st.currentStreak + 1 ELSE 1
                IN  [st EXCEPT !.wins = st.wins + 1,
                               !.currentStreak = cs,
                               !.bestStreak = Max(st.bestStreak,
                                                  st.currentStreak)]
            ELSE IF outcome.isWin = "false" THEN
                LET cs == IF st.currentStreak < 0 THEN st.currentStreak - 1 ELSE -1
                IN  [st EXCEPT !.losses = st.losses + 1,
                               !.currentStreak = cs,
                               !.worstStreak = Min(st.worstStreak,
                                                   st.currentStreak)]
            ELSE [st EXCEPT !.flats = st.flats + 1]
    IN  [s EXCEPT !.turnOutcomes = Append(s.turnOutcomes, outcome),
                  !.lastOutcome = outcome,
                  !.sessionStats = stats]

recordTurnOutcome(s, outcome) ==
    LET st == s.sessionStats
        stats ==
            IF outcome.isWin = "true" THEN
                LET cs == IF st.currentStreak > 0 THEN st.currentStreak + 1 ELSE 1
                IN  [st EXCEPT !.wins = st.wins + 1,
                               !.currentStreak = cs,
                               !.bestStreak = Max(st.bestStreak, cs)]
            ELSE IF outcome.isWin = "false" THEN
                LET cs == IF st.currentStreak < 0 THEN st.currentStreak - 1 ELSE -1
                IN  [st EXCEPT !.losses = st.losses + 1,
                               !.currentStreak = cs,
                               !.worstStreak = Min(st.worstStreak, cs)]
            ELSE [st EXCEPT !.flats = st.flats + 1]
    IN  [s EXCEPT !.turnOutcomes = Append(s.turnOutcomes, outcome),
                  !.lastOutcome = outcome,
                  !.sessionStats = stats]

\* faulty variant: only the turns that trade are timed
updateStats_TimesTradesOnly(s, isTrade, decisionTime) ==
    [s EXCEPT
        !.sessionStats =
            [s.sessionStats EXCEPT
                !.totalTurns = s.sessionStats.totalTurns + 1,
                !.totalTrades = s.sessionStats.totalTrades
                                  + (IF isTrade THEN 1 ELSE 0),
                !.decisionTimes =
                    IF isTrade
                    THEN Append(s.sessionStats.decisionTimes, decisionTime)
                    ELSE s.sessionStats.decisionTimes],
        !.turnStartTime = DateNow]

\* the last set of skip, buy and sell: the counters and the turn clock
updateStats(s, isTrade, decisionTime) ==
    [s EXCEPT
        !.sessionStats =
            [s.sessionStats EXCEPT
                !.totalTurns = s.sessionStats.totalTurns + 1,
                !.totalTrades = s.sessionStats.totalTrades
                                  + (IF isTrade THEN 1 ELSE 0),
                !.decisionTimes = Append(s.sessionStats.decisionTimes,
                                         decisionTime)],
        !.turnStartTime = DateNow]

\* faulty variant: every outcome is recorded as a skip
finishTurn_AlwaysSkip(s, action, isTrade, decisionTime) ==
    LET outcome == calculateOutcome(s)
        s1 == advanceBar(s)
        s2 == IF outcome # Null
              THEN recordTurnOutcome(s1, [outcome EXCEPT !.action = "skip"])
              ELSE s1
    IN  updateStats(s2, isTrade, decisionTime)

\* the tail shared by skip, buy and sell: outcome, advance, record, stats
finishTurn(s, action, isTrade, decisionTime) ==
    LET outcome == calculateOutcome(s)
        s1 == advanceBar(s)
        s2 == IF outcome # Null
              THEN recordTurnOutcome(s1, [outcome EXCEPT !.action = action])
              ELSE s1
    IN  updateStats(s2, isTrade, decisionTime)

(***************************************************************************)
(* Public actions of the store, as functions of the store record.          *)
(***************************************************************************)
\* faulty variant: the new chart starts with fresh statistics
loadStock_FreshStats(s, stock, startIndex) ==
    [s EXCEPT !.currentStock = stock,
              !.currentBarIndex = startIndex,
              !.position = Null,
              !.trades = <<>>,
              !.holdingPeriods = <<>>,
              !.turnOutcomes = <<>>,
              !.turnNumber = 0,
              !.turnStartTime = DateNow,
              !.lastAction = "null",
              !.lastOutcome = Null,
              !.showRevealCard = FALSE,
              !.revealedStock = Null,
              !.sessionStats =
                  [initialSessionStats EXCEPT
                      !.chartsViewed = s.sessionStats.chartsViewed + 1]]

\* faulty variant: the turn counter runs on over the load
loadStock_KeepsTurn(s, stock, startIndex) ==
    [s EXCEPT !.currentStock = stock,
              !.currentBarIndex = startIndex,
              !.position = Null,
              !.trades = <<>>,
              !.holdingPeriods = <<>>,
              !.turnOutcomes = <<>>,
              !.turnStartTime = DateNow,
              !.lastAction = "null",
              !.lastOutcome = Null,
              !.showRevealCard = FALSE,
              !.revealedStock = Null,
              !.sessionStats =
                  [s.sessionStats EXCEPT
                      !.chartsViewed = s.sessionStats.chartsViewed + 1]]

loadStock(s, stock, startIndex) ==
    [s EXCEPT !.currentStock = stock,
              !.currentBarIndex = startIndex,
              !.position = Null,
              !.trades = <<>>,
              !.holdingPeriods = <<>>,
              !.turnOutcomes = <<>>,
              !.turnNumber = 0,
              !.turnStartTime = DateNow,
              !.lastAction = "null",
              !.lastOutcome = Null,
              !.showRevealCard = FALSE,
              !.revealedStock = Null,
              !.sessionStats =
                  [s.sessionStats EXCEPT
                      !.chartsViewed = s.sessionStats.chartsViewed + 1]]

skip(s) ==
    IF s.currentStock = NullStock THEN s
    ELSE finishTurn([s EXCEPT !.lastAction = "skip"], "skip", FALSE,
                    decisionTimeOf(s))

\* faulty variant: the upper bound of the percentage is not checked
buyRejected_NoUpperBound(s, percentage) ==
    \/ s.currentStock = NullStock \/ RLe(percentage, RZero)
    \/ RLe(s.cash, RZero)

\* the two early returns of buy
buyRejected(s, percentage) ==
    \/ s.currentStock = NullStock \/ RLe(percentage, RZero)
          \/ RLt(R(100), percentage)
    \/ RLe(s.cash, RZero)

\* buy reads currentBar.close of an undefined bar: a TypeError, before any set
buyThrows(s, percentage) ==
    /\ ~buyRejected(s, percentage)
    /\ ~HasBar(s.currentStock, s.currentBarIndex)

\* faulty variant: the percentage is taken as a fraction of 1
buyAmountToSpend_Fraction(s, percentage) == RMul(s.cash, percentage)

buyAmountToSpend(s, percentage) == RMul(s.cash, RDiv(percentage, R(100)))

buySharesToBuy(s, percentage) ==
    RDiv(buyAmountToSpend(s, percentage),
         BarAt(s.currentStock, s.currentBarIndex).close)

buyTrade(s, percentage) ==
    [type |-> "buy", barIndex |-> s.currentBarIndex,
     price |-> BarAt(s.currentStock, s.currentBarIndex).close,
     shares |-> buySharesToBuy(s, percentage),
     timestamp |-> DateNow]

\* faulty variant: the average cost is the price of the last buy
buyNewPosition_LastPrice(s, percentage) ==
    LET price == BarAt(s.currentStock, s.currentBarIndex).close
        sharesToBuy == buySharesToBuy(s, percentage)
        existingShares == IF s.position # Null THEN s.position.shares ELSE RZero
    IN  [shares |-> RAdd(existingShares, sharesToBuy),
         averageCost |-> price,
         entryBarIndex |-> IF s.position # Null
                           THEN s.position.entryBarIndex
                           ELSE s.currentBarIndex]

buyNewPosition(s, percentage) ==
    LET price == BarAt(s.currentStock, s.currentBarIndex).close
        sharesToBuy == buySharesToBuy(s, percentage)
        existingShares == IF s.position # Null THEN s.position.shares ELSE RZero
        existingCost == IF s.position # Null THEN s.position.averageCost ELSE RZero
        newShares == RAdd(existingShares, sharesToBuy)
        newAverageCost ==
            RDiv(RAdd(RMul(existingShares, existingCost),
                      RMul(sharesToBuy, price)), newShares)
    IN  [shares |-> newShares,
         averageCost |-> newAverageCost,
         entryBarIndex |-> IF s.position # Null
                           THEN s.position.entryBarIndex
                           ELSE s.currentBarIndex]

\* faulty variant: a holding period is opened by every buy
buyHoldingPeriods_Always(s) ==
    Append(s.holdingPeriods,
           [entryBarIndex |-> s.currentBarIndex,
            exitBarIndex |-> NullIndex,
            entryPrice |-> BarAt(s.currentStock, s.currentBarIndex).close,
            exitPrice |-> NullPrice])

buyHoldingPeriods(s) ==
    IF s.position = Null \/ s.position.shares = RZero
    THEN Append(s.holdingPeriods,
                [entryBarIndex |-> s.currentBarIndex,
                 exitBarIndex |-> NullIndex,
                 entryPrice |-> BarAt(s.currentStock, s.currentBarIndex).close,
                 exitPrice |-> NullPrice])
    ELSE s.holdingPeriods

\* the first set of buy: cash, position, trades, holdingPeriods, lastAction
buySet(s, percentage) ==
    [s EXCEPT !.cash = RSub(s.cash, buyAmountToSpend(s, percentage)),
              !.position = buyNewPosition(s, percentage),
              !.trades = Append(s.trades, buyTrade(s, percentage)),
              !.holdingPeriods = buyHoldingPeriods(s),
              !.lastAction = "buy"]

buy(s, percentage) ==
    IF buyRejected(s, percentage) THEN s
    ELSE IF buyThrows(s, percentage) THEN s
    ELSE finishTurn(buySet(s, percentage), "buy", TRUE, decisionTimeOf(s))

\* faulty variant: the upper bound of the percentage is not checked
sellRejected_NoUpperBound(s, percentage) ==
    \/ s.currentStock = NullStock \/ RLe(percentage, RZero)
    \/ s.position = Null \/ RLe(s.position.shares, RZero)

\* the two early returns of sell
sellRejected(s, percentage) ==
    \/ s.currentStock = NullStock \/ RLe(percentage, RZero)
          \/ RLt(R(100), percentage)
    \/ s.position = Null \/ RLe(s.position.shares, RZero)

\* sell reads currentBar.close of an undefined bar: a TypeError, before any set
sellThrows(s, percentage) ==
    /\ ~sellRejected(s, percentage)
    /\ ~HasBar(s.currentStock, s.currentBarIndex)

sellSharesToSell(s, percentage) ==
    RMul(s.position.shares, RDiv(percentage, R(100)))

\* faulty variant: the trade logs the whole holding, as the one of switchStock does
sellTrade_AllShares(s, percentage) ==
    [type |-> "sell", barIndex |-> s.currentBarIndex,
     price |-> BarAt(s.currentStock, s.currentBarIndex).close,
     shares |-> s.position.shares,
     timestamp |-> DateNow]

sellTrade(s, percentage) ==
    [type |-> "sell", barIndex |-> s.currentBarIndex,
     price |-> BarAt(s.currentStock, s.currentBarIndex).close,
     shares |-> sellSharesToSell(s, percentage),
     timestamp |-> DateNow]

\* faulty variant: the remainder is compared with -0.0001
sellNewPosition_NegEpsilon(s, percentage) ==
    LET remainingShares == RSub(s.position.shares, sellSharesToSell(s, percentage))
    IN  IF RLt(RNeg(SHARE_EPSILON), remainingShares)
        THEN [s.position EXCEPT !.shares = remainingShares]
        ELSE Null

\* faulty variant: the remainder is compared with 0 instead of 0.0001
sellNewPosition_NoEpsilon(s, percentage) ==
    LET remainingShares == RSub(s.position.shares, sellSharesToSell(s, percentage))
    IN  IF RLt(RZero, remainingShares)
        THEN [s.position EXCEPT !.shares = remainingShares]
        ELSE Null

sellNewPosition(s, percentage) ==
    LET remainingShares == RSub(s.position.shares, sellSharesToSell(s, percentage))
    IN  IF RLt(SHARE_EPSILON, remainingShares)
        THEN [s.position EXCEPT !.shares = remainingShares]
        ELSE Null

\* faulty variant: a full sell leaves the holding period open
sellHoldingPeriods_Never(s, newPosition) == s.holdingPeriods

sellHoldingPeriods(s, newPosition) ==
    IF newPosition = Null
    THEN closeLastHoldingPeriod(s.holdingPeriods, s.currentBarIndex,
                                BarAt(s.currentStock, s.currentBarIndex).close)
    ELSE s.holdingPeriods

\* the first set of sell: cash, position, trades, holdingPeriods, lastAction
sellSet(s, percentage) ==
    LET price == BarAt(s.currentStock, s.currentBarIndex).close
        proceeds == RMul(sellSharesToSell(s, percentage), price)
        newPosition == sellNewPosition(s, percentage)
    IN  [s EXCEPT !.cash = RAdd(s.cash, proceeds),
                  !.position = newPosition,
                  !.trades = Append(s.trades, sellTrade(s, percentage)),
                  !.holdingPeriods = sellHoldingPeriods(s, newPosition),
                  !.lastAction = "sell"]

\* faulty variant: the outcome is computed before the position is changed
sell_OutcomeFirst(s, percentage) ==
    IF sellRejected(s, percentage) THEN s
    ELSE IF sellThrows(s, percentage) THEN s
    ELSE LET outcome == calculateOutcome([s EXCEPT !.lastAction = "sell"])
             s1 == advanceBar(sellSet(s, percentage))
             s2 == IF outcome # Null THEN recordTurnOutcome(s1, outcome)
                   ELSE s1
         IN  updateStats(s2, TRUE, decisionTimeOf(s))

sell(s, percentage) ==
    IF sellRejected(s, percentage) THEN s
    ELSE IF sellThrows(s, percentage) THEN s
    ELSE finishTurn(sellSet(s, percentage), "sell", TRUE, decisionTimeOf(s))

switchStockThrows(s) ==
    /\ s.position # Null
    /\ RLt(RZero, s.position.shares)
    /\ s.currentStock # NullStock
    /\ ~HasBar(s.currentStock, s.currentBarIndex)

\* faulty variant: the final trade logs the shares at their average cost
switchStockTrade_AtCost(s) ==
    [type |-> "sell", barIndex |-> s.currentBarIndex,
     price |-> s.position.averageCost,
     shares |-> s.position.shares,
     timestamp |-> DateNow]

\* the final trade of switchStock
switchStockTrade(s) ==
    [type |-> "sell", barIndex |-> s.currentBarIndex,
     price |-> BarAt(s.currentStock, s.currentBarIndex).close,
     shares |-> s.position.shares,
     timestamp |-> DateNow]

switchStock(s) ==
    IF s.position # Null /\ RLt(RZero, s.position.shares)
          /\ s.currentStock # NullStock THEN
        IF ~HasBar(s.currentStock, s.currentBarIndex) THEN s
        ELSE
        LET sellPrice == BarAt(s.currentStock, s.currentBarIndex).close
            trade == switchStockTrade(s)
        IN  [s EXCEPT
                !.cash = RAdd(s.cash, RMul(s.position.shares, sellPrice)),
                !.position = Null,
                !.trades = Append(s.trades, trade),
                !.holdingPeriods =
                    closeLastHoldingPeriod(s.holdingPeriods,
                                           s.currentBarIndex, sellPrice),
                !.showRevealCard = TRUE,
                !.revealedStock = revealedStockOf(s),
                !.sessionStats =
                    [s.sessionStats EXCEPT
                        !.totalTrades = s.sessionStats.totalTrades + 1]]
    ELSE IF s.currentStock # NullStock THEN
        [s EXCEPT !.showRevealCard = TRUE,
                  !.revealedStock = revealedStockOf(s)]
    ELSE s

\* faulty variant: the statistics outlive the reset
resetSession_KeepsStats(s) ==
    [initialState EXCEPT !.sessionStats = s.sessionStats]

resetSession(s) == initialState

resetAllStats(s) == initialState

(***************************************************************************)
(* The state machine: one step per call of a public action.                *)
(***************************************************************************)
\* the record of a call: arg is the percentage of buy/sell, the startIndex
\* of loadStock and, for a reset, the totalTurns it wipes
Call(op, arg, threw) == [op |-> op, arg |-> arg, threw |-> threw]

Init ==
    /\ currentStock = initialState.currentStock
    /\ currentBarIndex = initialState.currentBarIndex
    /\ cash = initialState.cash
    /\ position = initialState.position
    /\ trades = initialState.trades
    /\ holdingPeriods = initialState.holdingPeriods
    /\ turnOutcomes = initialState.turnOutcomes
    /\ turnNumber = initialState.turnNumber
    /\ turnStartTime = initialState.turnStartTime
    /\ sessionStats = initialState.sessionStats
    /\ isLoading = initialState.isLoading
    /\ lastAction = initialState.lastAction
    /\ lastOutcome = initialState.lastOutcome
    /\ showRevealCard = initialState.showRevealCard
    /\ revealedStock = initialState.revealedStock
    /\ lastCall = Call("init", RZero, FALSE)
    /\ cashAtLoad = INITIAL_CASH
    /\ startIndexAtLoad = NullIndex
    /\ pc = "idle"
    /\ pending = Null
    /\ probe = Null
    /\ stockIndex = {}
    /\ stockDataCache = {}
    /\ preloadingTicker = NullStock
    /\ inFlight = EmptyBag
    /\ showSwitchConfirm = FALSE
    /\ mounted = FALSE

LoadStock ==
    \E t \in Tickers : \E startIndex \in StartIndexes(t) :
        /\ sessionStats.chartsViewed < MaxCharts
        /\ Install(loadStock(Store, t, startIndex))
        /\ lastCall' = Call("loadStock", R(startIndex), FALSE)
        /\ cashAtLoad' = cash
        /\ startIndexAtLoad' = startIndex
        /\ UNCHANGED <<pc, pending, probe, appVars>>

SwitchStock ==
    /\ Install(switchStock(Store))
    /\ lastCall' = Call("switchStock", RZero, switchStockThrows(Store))
    /\ UNCHANGED <<cashAtLoad, startIndexAtLoad, pc, pending, probe, appVars>>

Skip ==
    /\ sessionStats.totalTurns < MaxTurns
    /\ Install(skip(Store))
    /\ lastCall' = Call("skip", RZero, FALSE)
    /\ UNCHANGED <<cashAtLoad, startIndexAtLoad, pc, pending, probe, appVars>>

Buy ==
    \E percentage \in Percentages :
        /\ sessionStats.totalTurns < MaxTurns
        /\ Install(buy(Store, percentage))
        /\ lastCall' = Call("buy", percentage, buyThrows(Store, percentage))
        /\ UNCHANGED <<cashAtLoad, startIndexAtLoad, pc, pending, probe, appVars>>

Sell ==
    \E percentage \in Percentages :
        /\ sessionStats.totalTurns < MaxTurns
        /\ Install(sell(Store, percentage))
        /\ lastCall' = Call("sell", percentage, sellThrows(Store, percentage))
        /\ UNCHANGED <<cashAtLoad, startIndexAtLoad, pc, pending, probe, appVars>>

ResetSession ==
    /\ Install(resetSession(Store))
    /\ lastCall' = Call("resetSession", R(sessionStats.totalTurns), FALSE)
    /\ cashAtLoad' = INITIAL_CASH
    /\ startIndexAtLoad' = NullIndex
    /\ UNCHANGED <<pc, pending, probe, appVars>>

ResetAllStats ==
    /\ Install(resetAllStats(Store))
    /\ lastCall' = Call("resetAllStats", R(sessionStats.totalTurns), FALSE)
    /\ cashAtLoad' = INITIAL_CASH
    /\ startIndexAtLoad' = NullIndex
    /\ UNCHANGED <<pc, pending, probe, appVars>>

Next ==
    \/ LoadStock
    \/ SwitchStock
    \/ Skip
    \/ Buy
    \/ Sell
    \/ ResetSession
    \/ ResetAllStats

Spec == Init /\ [][Next]_vars

(***************************************************************************)
(* Vocabulary of the properties.                                           *)
(***************************************************************************)
Last(seq) == seq[Len(seq)]

SharesHeld == IF position = Null THEN RZero ELSE position.shares

CurrentClose == BarAt(currentStock, currentBarIndex).close

ValidPercentage(p) == RLt(RZero, p) /\ RLe(p, R(100))

\* the preconditions of Buy and Sell, read in the state before the call
BuyAccepted(p) ==
    /\ currentStock # NullStock
    /\ ValidPercentage(p)
    /\ RLt(RZero, cash)
    /\ HasBar(currentStock, currentBarIndex)

SellAccepted(p) ==
    /\ currentStock # NullStock
    /\ ValidPercentage(p)
    /\ position # Null
    /\ RLt(RZero, position.shares)
    /\ HasBar(currentStock, currentBarIndex)

\* the calls the engine must ignore, read in the state before the call
RejectedCall(op, p) ==
    \/ op \in {"skip", "buy", "sell", "switchStock"} /\ currentStock = NullStock
    \/ op \in {"buy", "sell"} /\ ~ValidPercentage(p)
    \/ op = "buy" /\ RLe(cash, RZero)
    \/ op = "sell" /\ (position = Null \/ RLe(position.shares, RZero))

(***************************************************************************)
(* C1: loadStock(stock, startIndex) resets the game: afterwards position   *)
(* is null, trades, holdingPeriods and turnOutcomes are empty, turnNumber  *)
(* is 0, currentBarIndex is startIndex and cash is INITIAL_CASH, whatever  *)
(* the cash was before.                                                    *)
(***************************************************************************)
C1_LoadStockResetsGame ==
    lastCall.op = "loadStock" =>
        /\ position = Null
        /\ trades = <<>>
        /\ holdingPeriods = <<>>
        /\ turnOutcomes = <<>>
        /\ turnNumber = 0
        /\ R(currentBarIndex) = lastCall.arg
        /\ cash = INITIAL_CASH

(***************************************************************************)
(* C2: a rejected call (no instrument loaded; percentage outside (0,100];  *)
(* Buy without cash; Sell without a position) changes no field of the      *)
(* store and does not throw.                                               *)
(***************************************************************************)
C2_RejectedCallIsNoOp ==
    [][RejectedCall(lastCall'.op, lastCall'.arg)
          => UNCHANGED storeVars /\ ~lastCall'.threw]_vars

C2_Witness ==
    /\ lastCall = Call("buy", R(50), FALSE)
    /\ currentStock # NullStock
    /\ cash = RZero
    /\ Len(trades) = 1

(***************************************************************************)
(* C3: an accepted Buy(percentage) at bar i with close c spends            *)
(* spend = cash * percentage / 100: cash falls by spend, the shares held   *)
(* rise by spend / c, one buy Trade {i, c, spend / c} is appended, and a   *)
(* HoldingPeriod {i, c, open} is appended iff there was no position;       *)
(* otherwise holdingPeriods and position.entryBarIndex are unchanged.      *)
(***************************************************************************)
C3_BuyAccounting ==
    [][\A p \in Percentages :
        (lastCall' = Call("buy", p, FALSE) /\ BuyAccepted(p)) =>
            LET i == currentBarIndex
                c == CurrentClose
                spend == RMul(cash, RDiv(p, R(100)))
                q == RDiv(spend, c)
            IN  /\ cash' = RSub(cash, spend)
                /\ position' # Null
                /\ position'.shares = RAdd(SharesHeld, q)
                /\ trades' = Append(trades,
                                [type |-> "buy", barIndex |-> i, price |-> c,
                                 shares |-> q, timestamp |-> DateNow])
                /\ IF position = Null
                   THEN /\ holdingPeriods' =
                             Append(holdingPeriods,
                                [entryBarIndex |-> i, exitBarIndex |-> NullIndex,
                                 entryPrice |-> c, exitPrice |-> NullPrice])
                        /\ position'.entryBarIndex = i
                   ELSE /\ holdingPeriods' = holdingPeriods
                        /\ position'.entryBarIndex = position.entryBarIndex]_vars

C3_Witness ==
    /\ lastCall = Call("buy", R(50), FALSE)
    /\ Len(trades) = 2
    /\ trades[1].type = "buy"
    /\ trades[2].type = "buy"
    /\ Len(holdingPeriods) = 1
    /\ position # Null

(***************************************************************************)
(* C4: an accepted Sell(percentage) at bar i with close c sells            *)
(* sharesToSell = shares * percentage / 100: cash rises by                 *)
(* sharesToSell * c and one sell Trade {i, c, sharesToSell} is appended;   *)
(* if the remaining shares are <= 1e-4 the position becomes null and the   *)
(* last open HoldingPeriod gets exit i / c; otherwise the position keeps   *)
(* averageCost and entryBarIndex with the reduced shares and no            *)
(* HoldingPeriod changes.                                                  *)
(***************************************************************************)
C4_SellAccounting ==
    [][\A p \in Percentages :
        (lastCall' = Call("sell", p, FALSE) /\ SellAccepted(p)) =>
            LET i == currentBarIndex
                c == CurrentClose
                sharesToSell == RMul(position.shares, RDiv(p, R(100)))
                remaining == RSub(position.shares, sharesToSell)
                open == {k \in DOMAIN holdingPeriods :
                            holdingPeriods[k].exitBarIndex = NullIndex}
            IN  /\ cash' = RAdd(cash, RMul(sharesToSell, c))
                /\ trades' = Append(trades,
                                [type |-> "sell", barIndex |-> i, price |-> c,
                                 shares |-> sharesToSell, timestamp |-> DateNow])
                /\ IF RLe(remaining, SHARE_EPSILON)
                   THEN /\ position' = Null
                        /\ open # {}
                        /\ LET k == CHOOSE k \in open : \A j \in open : j <= k
                           IN  holdingPeriods' =
                                 [holdingPeriods EXCEPT
                                     ![k] = [entryBarIndex |-> @.entryBarIndex,
                                             entryPrice |-> @.entryPrice,
                                             exitBarIndex |-> i,
                                             exitPrice |-> c]]
                   ELSE /\ position' = [shares |-> remaining,
                                        averageCost |-> position.averageCost,
                                        entryBarIndex |-> position.entryBarIndex]
                        /\ holdingPeriods' = holdingPeriods]_vars

C4_Witness ==
    /\ lastCall = Call("sell", R(50), FALSE)
    /\ position = Null
    /\ Len(trades) = 2
    /\ trades[2].type = "sell"
    /\ trades[2].shares # trades[1].shares
    /\ holdingPeriods[1].exitBarIndex # NullIndex

(***************************************************************************)
(* C5: Skip with an instrument loaded leaves cash, position, trades and    *)
(* holdingPeriods unchanged and adds exactly 1 to currentBarIndex,         *)
(* turnNumber and sessionStats.totalTurns.                                 *)
(***************************************************************************)
C5_SkipFrame ==
    [][(lastCall'.op = "skip" /\ currentStock # NullStock) =>
          /\ cash' = cash
          /\ position' = position
          /\ trades' = trades
          /\ holdingPeriods' = holdingPeriods
          /\ currentBarIndex' = currentBarIndex + 1
          /\ turnNumber' = turnNumber + 1
          /\ sessionStats'.totalTurns = sessionStats.totalTurns + 1]_vars

C5_Witness ==
    /\ lastCall.op = "skip"
    /\ lastAction = "skip"
    /\ position # Null
    /\ turnNumber = 2

(***************************************************************************)
(* The ledger of the trade log: bought minus sold shares, and the cash     *)
(* the logged trades account for since the last load.                      *)
(***************************************************************************)
RECURSIVE LedgerSharesOf(_)
LedgerSharesOf(ts) ==
    IF ts = <<>> THEN RZero
    ELSE LET t == Last(ts)
         IN  RAdd(LedgerSharesOf(SubSeq(ts, 1, Len(ts) - 1)),
                  IF t.type = "buy" THEN t.shares ELSE RNeg(t.shares))

RECURSIVE LedgerCashOf(_)
LedgerCashOf(ts) ==
    IF ts = <<>> THEN cashAtLoad
    ELSE LET t == Last(ts)
             amount == RMul(t.shares, t.price)
         IN  RAdd(LedgerCashOf(SubSeq(ts, 1, Len(ts) - 1)),
                  IF t.type = "buy" THEN RNeg(amount) ELSE amount)

ClosedHoldingPeriods ==
    {k \in DOMAIN holdingPeriods : holdingPeriods[k].exitBarIndex # NullIndex}

OpenHoldingPeriods ==
    {k \in DOMAIN holdingPeriods : holdingPeriods[k].exitBarIndex = NullIndex}

\* a step that records the outcome of a turn
TurnRecorded == Len(turnOutcomes') = Len(turnOutcomes) + 1

(***************************************************************************)
(* C6 as claimed: in every reachable state the position is null or holds   *)
(* more than 1e-4 shares.                                                  *)
(***************************************************************************)
C6_PositionAboveEpsilon ==
    position = Null \/ RLt(SHARE_EPSILON, position.shares)

(***************************************************************************)
(* C6 as amended: the position is null or holds more than 0 shares, and a  *)
(* position left by a Sell holds more than 1e-4 shares; a Buy is not       *)
(* normalised.                                                             *)
(***************************************************************************)
C6_PositionPositive ==
    /\ position = Null \/ RLt(RZero, position.shares)
    /\ lastAction = "sell" =>
          position = Null \/ RLt(SHARE_EPSILON, position.shares)

C6_Witness ==
    /\ lastAction = "sell"
    /\ position # Null
    /\ Len(trades) = 3
    /\ trades[1].type = "buy"
    /\ trades[2].type = "sell"
    /\ trades[3].type = "sell"

(***************************************************************************)
(* C7: at most one HoldingPeriod has a null exit, it can only be the last  *)
(* element of holdingPeriods, and one exists iff position is not null.     *)
(***************************************************************************)
C7_HoldingPeriodPairing ==
    /\ Cardinality(OpenHoldingPeriods) <= 1
    /\ \A k \in OpenHoldingPeriods : k = Len(holdingPeriods)
    /\ (OpenHoldingPeriods # {}) <=> (position # Null)

C7_Witness ==
    /\ Len(holdingPeriods) = 2
    /\ holdingPeriods[1].exitBarIndex # NullIndex
    /\ holdingPeriods[2].exitBarIndex = NullIndex
    /\ position # Null

(***************************************************************************)
(* C8: cash is never negative, and the amount an accepted Buy spends (the  *)
(* fall of cash over the call) never exceeds the cash held before it.      *)
(***************************************************************************)
C8_CashNonNegative ==
    /\ [](RLe(RZero, cash))
    /\ [][\A p \in Percentages :
            (lastCall' = Call("buy", p, FALSE) /\ BuyAccepted(p)) =>
                LET spend == RSub(cash, cash')
                IN  /\ spend = RMul(Last(trades').shares, Last(trades').price)
                    /\ RLt(RZero, spend)
                    /\ RLe(spend, cash)]_vars

C8_Witness ==
    /\ lastCall = Call("buy", R(100), FALSE)
    /\ cash = RZero
    /\ position # Null
    /\ Len(trades) = 2

(***************************************************************************)
(* C9 as claimed: between two loads cash equals the cash at load minus the *)
(* logged buys plus the logged sells (shares * price), and the shares held *)
(* equal the bought minus the sold shares of the log.                      *)
(***************************************************************************)
C9_LedgerConservation ==
    /\ cash = LedgerCashOf(trades)
    /\ SharesHeld = LedgerSharesOf(trades)

(***************************************************************************)
(* C9 as amended: the cash equation holds; the shares held never exceed    *)
(* the bought minus the sold shares, and what is missing is what the Sells *)
(* that left 1e-4 shares or fewer dropped: at most 1e-4 per closed         *)
(* holding period.                                                         *)
(***************************************************************************)
C9_LedgerUpToDust ==
    /\ cash = LedgerCashOf(trades)
    /\ RLe(SharesHeld, LedgerSharesOf(trades))
    /\ RLe(RSub(LedgerSharesOf(trades), SharesHeld),
           RMul(SHARE_EPSILON, R(Cardinality(ClosedHoldingPeriods))))

C9_Witness ==
    /\ lastAction = "sell"
    /\ position = Null
    /\ RLt(RZero, LedgerSharesOf(trades))
    /\ cash # cashAtLoad

(***************************************************************************)
(* C10 as claimed: the inferredPrediction recorded for a turn is 'up' if   *)
(* the position held before the action had shares > 0, and 'down'          *)
(* otherwise.                                                              *)
(***************************************************************************)
C10_PredictionFromPositionBefore ==
    [][TurnRecorded =>
          Last(turnOutcomes').inferredPrediction =
              IF position # Null /\ RLt(RZero, position.shares)
              THEN "up" ELSE "down"]_vars

(***************************************************************************)
(* C10 as amended: the inferredPrediction recorded for a turn is 'up' if   *)
(* the position held after the action's own Buy or Sell (for Skip, the     *)
(* unchanged position) has shares > 0, and 'down' otherwise: a Buy from    *)
(* flat is scored 'up', a Sell that liquidates is scored 'down'.           *)
(***************************************************************************)
C10_PredictionFromPositionAfter ==
    [][TurnRecorded =>
          /\ Last(turnOutcomes').inferredPrediction =
                IF position' # Null /\ RLt(RZero, position'.shares)
                THEN "up" ELSE "down"
          /\ lastCall'.op = "buy" =>
                Last(turnOutcomes').inferredPrediction = "up"
          /\ (lastCall'.op = "sell" /\ position' = Null) =>
                Last(turnOutcomes').inferredPrediction = "down"]_vars

C10_Witness ==
    /\ lastCall.op = "buy"
    /\ Len(trades) = 1
    /\ lastOutcome # Null
    /\ lastOutcome.action = "buy"
    /\ lastOutcome.inferredPrediction = "up"

(***************************************************************************)
(* The move of the close over the turn that a step records, read from the  *)
(* bars in the state before the step.                                      *)
(***************************************************************************)
NextClose == BarAt(currentStock, currentBarIndex + 1).close

\* the next close is within +/-0.05% of the current close
FlatMove ==
    /\ RLe(NextClose, RMul(CurrentClose, RAdd(R(1), EPSILON)))
    /\ RLe(RMul(CurrentClose, RSub(R(1), EPSILON)), NextClose)

MoveDirection == IF RLt(CurrentClose, NextClose) THEN "up" ELSE "down"

StreaksUnchanged ==
    /\ sessionStats'.currentStreak = sessionStats.currentStreak
    /\ sessionStats'.bestStreak = sessionStats.bestStreak
    /\ sessionStats'.worstStreak = sessionStats.worstStreak

(***************************************************************************)
(* C11: a turn whose next close is within +/-0.05% of the current close    *)
(* gets isWin = null, adds 1 to flats and leaves wins, losses,             *)
(* currentStreak, bestStreak and worstStreak unchanged, whatever the       *)
(* action; for any other move isWin is true exactly when inferredPrediction*)
(* equals the direction of the move, and exactly one of wins and losses    *)
(* is incremented (flats is not).                                          *)
(***************************************************************************)
C11_FlatExcludedFromWinLoss ==
    [][TurnRecorded =>
          LET o == Last(turnOutcomes')
          IN  IF FlatMove
              THEN /\ o.actualDirection = "flat"
                   /\ o.isWin = "null"
                   /\ sessionStats'.flats = sessionStats.flats + 1
                   /\ sessionStats'.wins = sessionStats.wins
                   /\ sessionStats'.losses = sessionStats.losses
                   /\ StreaksUnchanged
              ELSE /\ o.actualDirection = MoveDirection
                   /\ o.isWin = (IF o.inferredPrediction = MoveDirection
                                 THEN "true" ELSE "false")
                   /\ sessionStats'.flats = sessionStats.flats
                   /\ IF o.isWin = "true"
                      THEN /\ sessionStats'.wins = sessionStats.wins + 1
                           /\ sessionStats'.losses = sessionStats.losses
                      ELSE /\ sessionStats'.wins = sessionStats.wins
                           /\ sessionStats'.losses = sessionStats.losses + 1]_vars

\* a flat turn triggered by a Sell, taken while a streak was running
C11_Witness ==
    /\ lastCall.op = "sell"
    /\ lastOutcome # Null
    /\ lastOutcome.action = "sell"
    /\ lastOutcome.isWin = "null"
    /\ sessionStats.flats = 1
    /\ sessionStats.currentStreak = 1

(***************************************************************************)
(* recordTurnOutcome called on its own with any verdict: the store exposes *)
(* it as an action (GameActions), and it reads nothing of the outcome but  *)
(* isWin.                                                                  *)
(***************************************************************************)
MaxOutcomes == 5

Verdicts == {"true", "false", "null"}

\* a TurnOutcome with the given verdict, for a player without a position
TurnOutcomeOf(s, isWin) ==
    [turnNumber |-> s.turnNumber,
     barIndex |-> s.currentBarIndex,
     action |-> "skip",
     positionBeforeAction |-> Null,
     positionAfterAction |-> Null,
     inferredPrediction |-> "down",
     actualDirection |-> IF isWin = "true" THEN "down"
                         ELSE IF isWin = "false" THEN "up" ELSE "flat",
     isWin |-> isWin,
     priceAtAction |-> R(100),
     priceNextBar |-> IF isWin = "true" THEN R(99)
                      ELSE IF isWin = "false" THEN R(101) ELSE R(100)]

RecordTurnOutcome ==
    \E isWin \in Verdicts :
        /\ Len(turnOutcomes) < MaxOutcomes
        /\ Install(recordTurnOutcome(Store, TurnOutcomeOf(Store, isWin)))
        /\ lastCall' = Call("recordTurnOutcome", RZero, FALSE)
        /\ UNCHANGED <<cashAtLoad, startIndexAtLoad, pc, pending, probe, appVars>>

RecordNext == RecordTurnOutcome

RecordSpec == Init /\ [][RecordNext]_vars

\* the wins recorded since the last loss, flats not counted
RECURSIVE WinRun(_)
WinRun(os) ==
    IF os = <<>> THEN 0
    ELSE LET o == Last(os)
             before == SubSeq(os, 1, Len(os) - 1)
         IN  IF o.isWin = "false" THEN 0
             ELSE IF o.isWin = "true" THEN WinRun(before) + 1
             ELSE WinRun(before)

(***************************************************************************)
(* C12: a recorded win sets currentStreak to currentStreak + 1 if it was   *)
(* positive and to 1 otherwise, and bestStreak to the larger of bestStreak *)
(* and the new currentStreak; a recorded loss sets currentStreak to        *)
(* currentStreak - 1 if it was negative and to -1 otherwise, and           *)
(* worstStreak to the smaller of worstStreak and the new currentStreak; a  *)
(* flat changes none of the three.  Hence N wins since the last loss (or   *)
(* since the start), with any flats between them, give currentStreak = N   *)
(* and bestStreak >= N.                                                    *)
(***************************************************************************)
C12_StreakRule ==
    /\ [][TurnRecorded =>
             LET o == Last(turnOutcomes')
                 st == sessionStats
                 st1 == sessionStats'
             IN  /\ o.isWin = "true" =>
                        /\ st1.currentStreak =
                              (IF st.currentStreak > 0
                               THEN st.currentStreak + 1 ELSE 1)
                        /\ st1.bestStreak >= st1.currentStreak
                        /\ st1.bestStreak >= st.bestStreak
                        /\ st1.bestStreak \in {st.bestStreak, st1.currentStreak}
                        /\ st1.worstStreak = st.worstStreak
                 /\ o.isWin = "false" =>
                        /\ st1.currentStreak =
                              (IF st.currentStreak < 0
                               THEN st.currentStreak - 1 ELSE -1)
                        /\ st1.worstStreak <= st1.currentStreak
                        /\ st1.worstStreak <= st.worstStreak
                        /\ st1.worstStreak \in {st.worstStreak, st1.currentStreak}
                        /\ st1.bestStreak = st.bestStreak
                 /\ o.isWin = "null" => StreaksUnchanged]_vars
    /\ [](WinRun(turnOutcomes) > 0 =>
             /\ sessionStats.currentStreak = WinRun(turnOutcomes)
             /\ sessionStats.bestStreak >= WinRun(turnOutcomes))

\* loss, win, flat, win: the win after the loss gave 1, the flat kept it
C12_Witness ==
    /\ lastCall.op = "recordTurnOutcome"
    /\ Len(turnOutcomes) = 4
    /\ turnOutcomes[1].isWin = "false"
    /\ turnOutcomes[2].isWin = "true"
    /\ turnOutcomes[3].isWin = "null"
    /\ turnOutcomes[4].isWin = "true"
    /\ sessionStats.currentStreak = 2
    /\ sessionStats.worstStreak = -1

(***************************************************************************)
(* C13: switchStock with an open position of s shares at bar i with close  *)
(* c adds s * c to cash, sets position to null, appends one sell Trade     *)
(* {i, c, s} and closes the open HoldingPeriod with exit i / c; cash,      *)
(* position, trades and holdingPeriods are those sell(100) produces from   *)
(* the same state, and the instrument is still the outgoing one.           *)
(***************************************************************************)
C13_SwitchLiquidatesLikeSell ==
    [][(/\ lastCall'.op = "switchStock"
        /\ currentStock # NullStock
        /\ position # Null
        /\ RLt(RZero, position.shares)
        /\ HasBar(currentStock, currentBarIndex)) =>
          LET i == currentBarIndex
              c == CurrentClose
              viaSell == sell(Store, R(100))
          IN  /\ ~lastCall'.threw
              /\ cash' = RAdd(cash, RMul(position.shares, c))
              /\ position' = Null
              /\ trades' = Append(trades,
                              [type |-> "sell", barIndex |-> i, price |-> c,
                               shares |-> position.shares,
                               timestamp |-> DateNow])
              /\ holdingPeriods' =
                    [holdingPeriods EXCEPT
                        ![Len(holdingPeriods)] =
                            [entryBarIndex |-> @.entryBarIndex,
                             entryPrice |-> @.entryPrice,
                             exitBarIndex |-> i,
                             exitPrice |-> c]]
              /\ cash' = viaSell.cash
              /\ position' = viaSell.position
              /\ trades' = viaSell.trades
              /\ holdingPeriods' = viaSell.holdingPeriods
              /\ currentStock' = currentStock
              /\ currentBarIndex' = currentBarIndex]_vars

\* a position bought at one close and liquidated by the switch at another
C13_Witness ==
    /\ lastCall = Call("switchStock", RZero, FALSE)
    /\ showRevealCard
    /\ position = Null
    /\ Len(trades) = 2
    /\ trades[1].type = "buy"
    /\ trades[2].type = "sell"
    /\ trades[2].price # trades[1].price
    /\ Len(holdingPeriods) = 1
    /\ holdingPeriods[1].exitBarIndex = currentBarIndex

TurnCalls == {"skip", "buy", "sell"}

TalliesUnchanged ==
    /\ sessionStats'.wins = sessionStats.wins
    /\ sessionStats'.losses = sessionStats.losses
    /\ sessionStats'.flats = sessionStats.flats
    /\ StreaksUnchanged

(***************************************************************************)
(* C14: in every reachable state where no next bar exists                  *)
(* (currentBarIndex + 1 >= bars.length), each of skip, buy, sell and       *)
(* switchStock completes without throwing, and the turn has no outcome:    *)
(* turnOutcomes, wins, losses, flats and the streak fields are unchanged.  *)
(***************************************************************************)
C14_EndOfDataTotal ==
    [][(/\ currentStock # NullStock
        /\ ~HasBar(currentStock, currentBarIndex + 1)
        /\ lastCall'.op \in TurnCalls \cup {"switchStock"}) =>
          /\ ~lastCall'.threw
          /\ turnOutcomes' = turnOutcomes
          /\ TalliesUnchanged]_vars

(***************************************************************************)
(* A long game: stock "L" loaded at the start index 60 and skipped through *)
(* bar by bar.                                                             *)
(***************************************************************************)
MaxSkips == 101

LoadLongStock ==
    /\ currentStock = NullStock
    /\ Install(loadStock(Store, LongTicker, MIN_LOOKBACK_BARS))
    /\ lastCall' = Call("loadStock", R(MIN_LOOKBACK_BARS), FALSE)
    /\ cashAtLoad' = cash
    /\ startIndexAtLoad' = MIN_LOOKBACK_BARS
    /\ UNCHANGED <<pc, pending, probe, appVars>>

SkipLongStock ==
    /\ currentStock = LongTicker
    /\ turnNumber < MaxSkips
    /\ Install(skip(Store))
    /\ lastCall' = Call("skip", RZero, FALSE)
    /\ UNCHANGED <<cashAtLoad, startIndexAtLoad, pc, pending, probe, appVars>>

LongNext ==
    \/ LoadLongStock
    \/ SkipLongStock

LongSpec == Init /\ [][LongNext]_vars

BarCount == Len(Bars[currentStock])

\* the instrument was loaded at a start index the loader accepts
LoadedWithinBounds ==
    /\ currentStock # NullStock
    /\ MIN_LOOKBACK_BARS <= startIndexAtLoad
    /\ startIndexAtLoad + MIN_FORWARD_BARS < BarCount

(***************************************************************************)
(* C15: after a loadStock with MIN_LOOKBACK_BARS <= startIndex and         *)
(* startIndex + MIN_FORWARD_BARS < bars.length, every state reached by any *)
(* number of turns has currentBarIndex <= bars.length - 1.                 *)
(***************************************************************************)
C15_BarIndexBound ==
    LoadedWithinBounds => currentBarIndex <= BarCount - 1

\* the outcomes are numbered from 0 and taken at consecutive bars from the
\* start index
OutcomesInOrder ==
    \A k \in DOMAIN turnOutcomes :
        /\ turnOutcomes[k].turnNumber = k - 1
        /\ turnOutcomes[k].barIndex = startIndexAtLoad + k - 1

\* a turn keeps the outcomes it found, and an outcome it adds carries its
\* action
OutcomesAppendOnly ==
    lastCall'.op \in TurnCalls =>
        /\ Len(turnOutcomes') >= Len(turnOutcomes)
        /\ SubSeq(turnOutcomes', 1, Len(turnOutcomes)) = turnOutcomes
        /\ TurnRecorded => Last(turnOutcomes').action = lastCall'.op

\* a call of skip, buy or sell that went through: not rejected, not thrown
TurnCompleted ==
    /\ lastCall'.op \in TurnCalls
    /\ turnNumber' = turnNumber + 1

MaxStepTurns == 2

Pending(action, isTrade, outcome, decisionTime) ==
    [action |-> action, isTrade |-> isTrade, outcome |-> outcome,
     decisionTime |-> decisionTime]

StepLoadStock ==
    \E t \in Tickers : \E startIndex \in StartIndexes(t) :
        /\ pc = "idle"
        /\ currentStock = NullStock
        /\ Install(loadStock(Store, t, startIndex))
        /\ lastCall' = Call("loadStock", R(startIndex), FALSE)
        /\ cashAtLoad' = cash
        /\ startIndexAtLoad' = startIndex
        /\ UNCHANGED <<pc, pending, probe, appVars>>

\* skip up to its first set: lastAction
StepSkip ==
    /\ pc = "idle"
    /\ sessionStats.totalTurns < MaxStepTurns
    /\ lastCall' = Call("skip", RZero, FALSE)
    /\ IF currentStock = NullStock
       THEN UNCHANGED <<storeVars, pc, pending>>
       ELSE LET s1 == [Store EXCEPT !.lastAction = "skip"]
            IN  /\ Install(s1)
                /\ pc' = "advanceBar"
                /\ pending' = Pending("skip", FALSE, calculateOutcome(s1),
                                      decisionTimeOf(Store))
    /\ UNCHANGED <<cashAtLoad, startIndexAtLoad, probe, appVars>>

\* buy up to its first set: cash, position, trades, holdingPeriods, lastAction
StepBuy ==
    \E percentage \in Percentages :
        /\ pc = "idle"
        /\ sessionStats.totalTurns < MaxStepTurns
        /\ lastCall' = Call("buy", percentage, buyThrows(Store, percentage))
        /\ IF buyRejected(Store, percentage) \/ buyThrows(Store, percentage)
           THEN UNCHANGED <<storeVars, pc, pending>>
           ELSE LET s1 == buySet(Store, percentage)
                IN  /\ Install(s1)
                    /\ pc' = "advanceBar"
                    /\ pending' = Pending("buy", TRUE, calculateOutcome(s1),
                                          decisionTimeOf(Store))
        /\ UNCHANGED <<cashAtLoad, startIndexAtLoad, probe, appVars>>

\* sell up to its first set
StepSell ==
    \E percentage \in Percentages :
        /\ pc = "idle"
        /\ sessionStats.totalTurns < MaxStepTurns
        /\ lastCall' = Call("sell", percentage, sellThrows(Store, percentage))
        /\ IF sellRejected(Store, percentage) \/ sellThrows(Store, percentage)
           THEN UNCHANGED <<storeVars, pc, pending>>
           ELSE LET s1 == sellSet(Store, percentage)
                IN  /\ Install(s1)
                    /\ pc' = "advanceBar"
                    /\ pending' = Pending("sell", TRUE, calculateOutcome(s1),
                                          decisionTimeOf(Store))
        /\ UNCHANGED <<cashAtLoad, startIndexAtLoad, probe, appVars>>

\* the set of advanceBar
StepAdvanceBar ==
    /\ pc = "advanceBar"
    /\ Install(advanceBar(Store))
    /\ pc' = IF pending.outcome # Null THEN "recordTurnOutcome"
             ELSE "updateStats"
    /\ UNCHANGED <<pending, lastCall, cashAtLoad, startIndexAtLoad, probe, appVars>>

\* the set of recordTurnOutcome, made when there is an outcome
StepRecordTurnOutcome ==
    /\ pc = "recordTurnOutcome"
    /\ Install(recordTurnOutcome(Store,
                   [pending.outcome EXCEPT !.action = pending.action]))
    /\ pc' = "updateStats"
    /\ UNCHANGED <<pending, lastCall, cashAtLoad, startIndexAtLoad, probe, appVars>>

\* the last set of the handler: sessionStats and turnStartTime
StepUpdateStats ==
    /\ pc = "updateStats"
    /\ Install(updateStats(Store, pending.isTrade, pending.decisionTime))
    /\ pc' = "idle"
    /\ pending' = Null
    /\ UNCHANGED <<lastCall, cashAtLoad, startIndexAtLoad, probe, appVars>>

StepNext ==
    \/ StepLoadStock
    \/ StepSkip
    \/ StepBuy
    \/ StepSell
    \/ StepAdvanceBar
    \/ StepRecordTurnOutcome
    \/ StepUpdateStats

StepSpec == Init /\ [][StepNext]_vars

(***************************************************************************)
(* C17: no partially-updated turn is observable: whenever a subscriber is  *)
(* handed a state in which skip, buy or sell has moved currentBarIndex or  *)
(* turnNumber, that state has both moved by 1, holds the outcome of the    *)
(* turn in turnOutcomes and lastOutcome (when there is a next bar) and     *)
(* counts the turn in totalTurns (and in totalTrades for buy and sell);    *)
(* and a state in which cash, position or trades have changed has the bar  *)
(* advanced as well.                                                       *)
(***************************************************************************)
C17_NoPartialTurnObservable ==
    [][lastCall'.op \in TurnCalls =>
          /\ (turnNumber' # turnNumber \/ currentBarIndex' # currentBarIndex) =>
                /\ currentBarIndex' = currentBarIndex + 1
                /\ turnNumber' = turnNumber + 1
                /\ sessionStats'.totalTurns = sessionStats.totalTurns + 1
                /\ HasBar(currentStock, currentBarIndex + 1) =>
                      /\ TurnRecorded
                      /\ lastOutcome' = Last(turnOutcomes')
                /\ lastCall'.op \in {"buy", "sell"} =>
                      sessionStats'.totalTrades = sessionStats.totalTrades + 1
          /\ (trades' # trades \/ cash' # cash \/ position' # position) =>
                /\ currentBarIndex' = currentBarIndex + 1
                /\ turnNumber' = turnNumber + 1]_vars

(***************************************************************************)
(* The round trip: stock "A" (close 100 at bar 60, 105 at bar 62) loaded   *)
(* at start index 60 with cash 10000.                                      *)
(***************************************************************************)
RoundTripLoaded ==
    /\ currentStock = "A"
    /\ startIndexAtLoad = 60
    /\ cashAtLoad = INITIAL_CASH

\* the log of the game so far is that of Buy(50), Skip: one trade, a buy
\* that spent half of the cash at load, and the outcomes of a buy and a skip
BoughtHalfThenSkipped ==
    /\ turnNumber = 2
    /\ Len(turnOutcomes) = 2
    /\ turnOutcomes[1].action = "buy"
    /\ turnOutcomes[2].action = "skip"
    /\ Len(trades) = 1
    /\ trades[1].type = "buy"
    /\ RMul(trades[1].shares, trades[1].price) = RDiv(cashAtLoad, R(2))

(***************************************************************************)
(* C18: from cash 10000 at start index 60, Buy(50) at close 100 leaves     *)
(* cash 5000 and the position {50 shares, averageCost 100}; after a Skip,  *)
(* Sell(100) at close 105 leaves cash 10250 exactly, position null, two    *)
(* trades and one HoldingPeriod, closed, entered at bar 60 / 100 and       *)
(* exited at bar 62 / 105.                                                 *)
(***************************************************************************)
C18_RoundTrip ==
    /\ [][(/\ RoundTripLoaded
            /\ turnNumber = 0
            /\ lastCall' = Call("buy", R(50), FALSE)) =>
              /\ cash' = R(5000)
              /\ position' = [shares |-> R(50), averageCost |-> R(100),
                              entryBarIndex |-> 60]]_vars
    /\ [][(/\ RoundTripLoaded
            /\ BoughtHalfThenSkipped
            /\ lastCall' = Call("sell", R(100), FALSE)) =>
              /\ cash' = R(10250)
              /\ position' = Null
              /\ Len(trades') = 2
              /\ holdingPeriods' =
                    <<[entryBarIndex |-> 60, exitBarIndex |-> 62,
                       entryPrice |-> R(100), exitPrice |-> R(105)]>>]_vars

\* the state the round trip ends in
C18_Witness ==
    /\ RoundTripLoaded
    /\ lastCall = Call("sell", R(100), FALSE)
    /\ turnNumber = 3
    /\ Len(turnOutcomes) = 3
    /\ turnOutcomes[1].action = "buy"
    /\ turnOutcomes[2].action = "skip"
    /\ turnOutcomes[3].action = "sell"
    /\ trades[1].shares = R(50)
    /\ cash = R(10250)

(***************************************************************************)
(* C19: an accepted Buy of q shares at price p onto a position of s0       *)
(* shares at average cost c0 leaves s0 + q shares at average cost          *)
(* (s0 * c0 + q * p) / (s0 + q); a Buy from no position leaves average     *)
(* cost p; Skip, and a Sell that leaves a position, do not change the      *)
(* average cost.                                                           *)
(***************************************************************************)
C19_WeightedAverageCost ==
    /\ [][\A pct \in Percentages :
            (lastCall' = Call("buy", pct, FALSE) /\ BuyAccepted(pct)) =>
                LET p == CurrentClose
                    q == RDiv(RMul(cash, RDiv(pct, R(100))), p)
                IN  /\ position' # Null
                    /\ IF position = Null
                       THEN /\ position'.shares = q
                            /\ position'.averageCost = p
                       ELSE LET s0 == position.shares
                                c0 == position.averageCost
                            IN  /\ position'.shares = RAdd(s0, q)
                                /\ position'.averageCost =
                                      RDiv(RAdd(RMul(s0, c0), RMul(q, p)),
                                           RAdd(s0, q))]_vars
    /\ [][(lastCall'.op \in {"skip", "sell"}
            /\ position # Null /\ position' # Null) =>
              position'.averageCost = position.averageCost]_vars

\* a second Buy at another close: the average cost lies between the two
C19_Witness ==
    /\ lastCall.op = "buy"
    /\ Len(trades) = 2
    /\ trades[1].type = "buy"
    /\ trades[2].type = "buy"
    /\ trades[1].price # trades[2].price
    /\ position # Null
    /\ RLt(trades[1].price, position.averageCost)
    /\ RLt(position.averageCost, trades[2].price)

(***************************************************************************)
(* The two copies of getDirection called on their own.  The exported copy  *)
(* of utils/gameLogic.ts has its own EPSILON.  The closes tried are a few  *)
(* positive prices, each moved by a whole number of hundredths of a        *)
(* percent: next = cur * (10000 + move) / 10000.                           *)
(***************************************************************************)
gameLogic_EPSILON == <<1, 2000>>    \* 0.0005

gameLogic_getDirection(currentClose, nextClose) ==
    LET change == RDiv(RSub(nextClose, currentClose), currentClose)
    IN  IF RLt(gameLogic_EPSILON, change) THEN "up"
        ELSE IF RLt(change, RNeg(gameLogic_EPSILON)) THEN "down"
        ELSE "flat"

MaxMove == 10

ProbeCloses == {R(100), R(2000), <<1, 2>>, R(84), R(100000000)}

MovedClose(cur, move) == RMul(cur, <<10000 + move, 10000>>)

GetDirection ==
    \E cur \in ProbeCloses : \E move \in (-MaxMove)..MaxMove :
        /\ probe' = [currentClose |-> cur,
                     nextClose |-> MovedClose(cur, move),
                     move |-> move,
                     store |-> getDirection(cur, MovedClose(cur, move)),
                     gameLogic |->
                         gameLogic_getDirection(cur, MovedClose(cur, move))]
        /\ UNCHANGED <<appVars, storeVars, lastCall, cashAtLoad,
                       startIndexAtLoad, pc, pending>>

DirectionNext == GetDirection

DirectionSpec == Init /\ [][DirectionNext]_vars

\* the relative change of the last call, computed from its two closes
ProbeChange ==
    RDiv(RSub(probe.nextClose, probe.currentClose), probe.currentClose)

(***************************************************************************)
(* C20: getDirection(cur, next) is 'up' exactly when (next - cur) / cur >  *)
(* 0.0005, 'down' exactly when it is < -0.0005 and 'flat' otherwise, so a  *)
(* move of exactly +/-0.05% is 'flat' (100 -> 100.04 flat, 100 -> 100.06   *)
(* up, 100 -> 99.9 down); the copy of the store and the exported copy of   *)
(* gameLogic agree on every pair of positive closes.                       *)
(***************************************************************************)
C20_DirectionThresholding ==
    probe # Null =>
        /\ (probe.store = "up") <=> RLt(<<1, 2000>>, ProbeChange)
        /\ (probe.store = "down") <=> RLt(ProbeChange, <<-1, 2000>>)
        /\ probe.store \in {"up", "down", "flat"}
        /\ probe.store = (IF probe.move > 5 THEN "up"
                          ELSE IF probe.move < -5 THEN "down" ELSE "flat")
        /\ (probe.currentClose = R(100) /\ probe.nextClose = <<2501, 25>>) =>
              probe.store = "flat"
        /\ (probe.currentClose = R(100) /\ probe.nextClose = <<5003, 50>>) =>
              probe.store = "up"
        /\ (probe.currentClose = R(100) /\ probe.nextClose = <<999, 10>>) =>
              probe.store = "down"
        /\ probe.gameLogic = probe.store

\* 100 -> 100.05, a move of exactly 0.05%
C20_Witness ==
    /\ probe # Null
    /\ probe.currentClose = R(100)
    /\ probe.nextClose = <<2001, 20>>
    /\ probe.move = 5
    /\ probe.store = "flat"
    /\ probe.gameLogic = "flat"

(***************************************************************************)
(* C21: loadStock changes sessionStats only by adding 1 to chartsViewed:   *)
(* totalTurns, totalTrades, wins, losses, flats, currentStreak,            *)
(* bestStreak, worstStreak and decisionTimes are the same before and       *)
(* after the call.                                                         *)
(***************************************************************************)
C21_LoadStockKeepsStats ==
    [][lastCall'.op = "loadStock" =>
          /\ sessionStats'.chartsViewed = sessionStats.chartsViewed + 1
          /\ sessionStats'.totalTurns = sessionStats.totalTurns
          /\ sessionStats'.totalTrades = sessionStats.totalTrades
          /\ sessionStats'.wins = sessionStats.wins
          /\ sessionStats'.losses = sessionStats.losses
          /\ sessionStats'.flats = sessionStats.flats
          /\ StreaksUnchanged
          /\ sessionStats'.decisionTimes = sessionStats.decisionTimes
          /\ sessionStats' =
                [sessionStats EXCEPT
                    !.chartsViewed = sessionStats.chartsViewed + 1]]_vars

\* a second chart loaded after turns that were won, lost and traded
C21_Witness ==
    /\ lastCall.op = "loadStock"
    /\ sessionStats.chartsViewed = 2
    /\ sessionStats.totalTurns = 3
    /\ sessionStats.totalTrades >= 1
    /\ sessionStats.wins >= 1
    /\ sessionStats.losses >= 1
    /\ sessionStats.currentStreak # 0
    /\ turnOutcomes = <<>>

(***************************************************************************)
(* The two start-index selectors called on their own: the one of the data  *)
(* layer, which takes its minimums from the time scale, and the one of     *)
(* utils/gameLogic.ts.  Math.random() is a draw k / DrawSteps in [0, 1);   *)
(* the bar counts tried start at the smallest one the minimums admit.      *)
(***************************************************************************)
TIME_SCALE_OPTIONS ==
    <<[id |-> "3y-weekly", windowMonths |-> 36, barWidth |-> "weekly"],
      [id |-> "1y-daily", windowMonths |-> 12, barWidth |-> "daily"],
      [id |-> "6m-daily", windowMonths |-> 6, barWidth |-> "daily"],
      [id |-> "1m-daily", windowMonths |-> 1, barWidth |-> "daily"]>>

TimeScales == {TIME_SCALE_OPTIONS[i].id : i \in DOMAIN TIME_SCALE_OPTIONS}

MinBars(lookback, forward) == [lookback |-> lookback, forward |-> forward]

getMinBars(timeScale) ==
    LET found == {i \in DOMAIN TIME_SCALE_OPTIONS :
                     TIME_SCALE_OPTIONS[i].id = timeScale}
    IN  IF found = {} THEN MinBars(60, 100)
        ELSE LET config == TIME_SCALE_OPTIONS[CHOOSE i \in found : TRUE]
             IN  IF config.barWidth = "weekly" THEN MinBars(30, 50)
                 ELSE IF config.windowMonths = 1 THEN MinBars(20, 20)
                 ELSE IF config.windowMonths = 6 THEN MinBars(60, 100)
                 ELSE IF config.windowMonths = 12 THEN MinBars(120, 150)
                 ELSE MinBars(60, 100)

\* Math.floor of a rational that is not negative
MathFloor(a) == a[1] \div a[2]

\* the selector of the data layer
selectRandomStartIndex(barCount, timeScale, random) ==
    LET lookback == getMinBars(timeScale).lookback
        forward == getMinBars(timeScale).forward
        minStart == lookback
        maxStart == barCount - forward - 1
    IN  IF maxStart <= minStart THEN minStart
        ELSE minStart + MathFloor(RMul(random, R(maxStart - minStart + 1)))

\* the selector of utils/gameLogic.ts
gameLogic_selectRandomStartIndex(barCount, random) ==
    LET minStart == MIN_LOOKBACK_BARS
        maxStart == barCount - MIN_FORWARD_BARS
    IN  IF maxStart <= minStart THEN minStart
        ELSE MathFloor(RMul(random, R(maxStart - minStart + 1))) + minStart

MaxExtraBars == 5

DrawSteps == 5

RandomDraws == {Norm(k, DrawSteps) : k \in 0..(DrawSteps - 1)}

SelectRandomStartIndex ==
    \E timeScale \in TimeScales : \E extra \in 0..MaxExtraBars :
      \E random \in RandomDraws :
        LET lookback == getMinBars(timeScale).lookback
            forward == getMinBars(timeScale).forward
            barCount == lookback + forward + extra
        IN  /\ probe' = [fn |-> "selectRandomStartIndex",
                         barCount |-> barCount,
                         lookback |-> lookback,
                         forward |-> forward,
                         random |-> random,
                         result |-> selectRandomStartIndex(barCount, timeScale,
                                                           random)]
            /\ UNCHANGED <<appVars, storeVars, lastCall, cashAtLoad,
                           startIndexAtLoad, pc, pending>>

GameLogicSelectRandomStartIndex ==
    \E extra \in 0..MaxExtraBars : \E random \in RandomDraws :
        LET barCount == MIN_LOOKBACK_BARS + MIN_FORWARD_BARS + extra
        IN  /\ probe' = [fn |-> "gameLogic.selectRandomStartIndex",
                         barCount |-> barCount,
                         lookback |-> MIN_LOOKBACK_BARS,
                         forward |-> MIN_FORWARD_BARS,
                         random |-> random,
                         result |-> gameLogic_selectRandomStartIndex(barCount,
                                                                     random)]
            /\ UNCHANGED <<appVars, storeVars, lastCall, cashAtLoad,
                           startIndexAtLoad, pc, pending>>

StartIndexNext ==
    \/ SelectRandomStartIndex
    \/ GameLogicSelectRandomStartIndex

StartIndexSpec == Init /\ [][StartIndexNext]_vars

(***************************************************************************)
(* C22: for every barCount >= lookback + forward and every random draw,    *)
(* the start index r a selector returns satisfies r >= lookback and        *)
(* r + forward < barCount; for both selectors.                             *)
(***************************************************************************)
C22_StartIndexValid ==
    (probe # Null /\ probe.barCount >= probe.lookback + probe.forward) =>
        /\ probe.result >= probe.lookback
        /\ probe.result + probe.forward < probe.barCount


(***************************************************************************)
(* The indicators of utils/indicators.ts called on their own.  A bar       *)
(* series is built from a sequence of closes; the time of a bar is its     *)
(* 0-based index, so the time of a point tells which bar it belongs to.    *)
(* The code indexes from 0 and the sequences here from 1: bars[i] of the   *)
(* code is bars[i + 1] here.  Reading a field of a bar that does not exist *)
(* raises a TypeError: the ...Throws operators say when a call does.       *)
(***************************************************************************)
OHLCVBar(time, close) == [time |-> time, close |-> close]

LineData(time, value) == [time |-> time, value |-> value]

BarsOf(closes) == [i \in 1..Len(closes) |-> OHLCVBar(i - 1, closes[i])]

\* bars[hi].close + bars[hi - 1].close + ... over count bars, as the inner
\* loop of calculateSMA adds them
RECURSIVE SumBack(_, _, _)
SumBack(bars, hi, count) ==
    IF count = 0 THEN RZero
    ELSE RAdd(SumBack(bars, hi, count - 1), bars[hi - count + 1].close)

calculateSMA_ShortWindow(bars, period) ==
    [k \in 1..Max(Len(bars) - period + 1, 0) |->
        LineData(bars[k + period - 1].time,
                 RDiv(SumBack(bars, k + period - 1, period - 1), R(period)))]

calculateSMA(bars, period) ==
    [k \in 1..Max(Len(bars) - period + 1, 0) |->
        LineData(bars[k + period - 1].time,
                 RDiv(SumBack(bars, k + period - 1, period), R(period)))]

\* the seed loop reads bars[0 .. period - 1]
calculateEMAThrows(bars, period) == Len(bars) < period

RECURSIVE emaAt(_, _, _)
emaAt(bars, period, i) ==
    LET multiplier == RDiv(R(2), R(period + 1))
    IN  IF i = period THEN RDiv(SumBack(bars, period, period), R(period))
        ELSE LET ema == emaAt(bars, period, i - 1)
             IN  RAdd(RMul(RSub(bars[i].close, ema), multiplier), ema)

calculateEMA(bars, period) ==
    [k \in 1..Max(Len(bars) - period + 1, 0) |->
        LineData(bars[k + period - 1].time, emaAt(bars, period, k + period - 1))]

\* a band value base + times * Math.sqrt(sqrtOf), kept in this form because
\* the root of a rational is rarely one
BandValue(base, times, sqrtOf) ==
    [base |-> base, times |-> times, sqrtOf |-> sqrtOf]

RECURSIVE SquaredDiffSum(_, _, _, _)
SquaredDiffSum(bars, hi, count, sma) ==
    IF count = 0 THEN RZero
    ELSE LET diff == RSub(bars[hi - count + 1].close, sma)
         IN  RAdd(SquaredDiffSum(bars, hi, count - 1, sma), RMul(diff, diff))

calculateBollingerBands(bars, period, stdDevMultiplier) ==
    LET points == 1..Max(Len(bars) - period + 1, 0)
        smaAt(k) == RDiv(SumBack(bars, k + period - 1, period), R(period))
        varAt(k) == RDiv(SquaredDiffSum(bars, k + period - 1, period, smaAt(k)),
                         R(period))
    IN  [upper |-> [k \in points |->
                      LineData(bars[k + period - 1].time,
                               BandValue(smaAt(k), stdDevMultiplier, varAt(k)))],
         middle |-> [k \in points |->
                      LineData(bars[k + period - 1].time, smaAt(k))],
         lower |-> [k \in points |->
                      LineData(bars[k + period - 1].time,
                               BandValue(smaAt(k), -stdDevMultiplier, varAt(k)))]]

\* gains[i] and losses[i] of the code are rsiGains(bars)[i + 1] and
\* rsiLosses(bars)[i + 1]
rsiGains(bars) ==
    [i \in 1..Max(Len(bars) - 1, 0) |->
        LET change == RSub(bars[i + 1].close, bars[i].close)
        IN  IF RLt(RZero, change) THEN change ELSE RZero]

rsiLosses(bars) ==
    [i \in 1..Max(Len(bars) - 1, 0) |->
        LET change == RSub(bars[i + 1].close, bars[i].close)
        IN  IF RLt(change, RZero) THEN RNeg(change) ELSE RZero]

\* the first point reads bars[period].time
calculateRSIThrows(bars, period) == Len(bars) <= period

RECURSIVE SumOf(_, _)
SumOf(xs, count) ==
    IF count = 0 THEN RZero ELSE RAdd(SumOf(xs, count - 1), xs[count])

\* avgGain or avgLoss once changes xs[1 .. m] are taken in (m >= period)
RECURSIVE rsiAverage(_, _, _)
rsiAverage(xs, period, m) ==
    IF m = period THEN RDiv(SumOf(xs, period), R(period))
    ELSE RDiv(RAdd(RMul(rsiAverage(xs, period, m - 1), R(period - 1)), xs[m]),
              R(period))

rsiValue_Ratio(avgGain, avgLoss) ==
    LET rs == IF avgLoss = RZero THEN R(100) ELSE RDiv(avgGain, avgLoss)
    IN  RMul(R(100), rs)

rsiValue(avgGain, avgLoss) ==
    LET rs == IF avgLoss = RZero THEN R(100) ELSE RDiv(avgGain, avgLoss)
    IN  RSub(R(100), RDiv(R(100), RAdd(R(1), rs)))

\* point k is made from changes 1 .. period + k - 1 and carries the time of
\* the bar after the last of them
calculateRSI(bars, period) ==
    [k \in 1..Max(Len(bars) - period, 0) |->
        LineData(bars[period + k].time,
                 rsiValue(rsiAverage(rsiGains(bars), period, period + k - 1),
                          rsiAverage(rsiLosses(bars), period, period + k - 1)))]

MaxBars == 4

MaxPeriod == 3

IndicatorCloses == {R(100), R(105)}

CloseSeries == UNION {[1..n -> IndicatorCloses] : n \in 0..MaxBars}

Periods == 1..MaxPeriod

IndicatorResult(fn, closes, period, threw, result) ==
    [fn |-> fn, closes |-> closes, period |-> period, threw |-> threw,
     result |-> result]

CalculateSMA ==
    \E closes \in CloseSeries : \E period \in Periods :
        /\ probe' = IndicatorResult("calculateSMA", closes, period, FALSE,
                                    calculateSMA(BarsOf(closes), period))
        /\ UNCHANGED <<appVars, storeVars, lastCall, cashAtLoad,
                       startIndexAtLoad, pc, pending>>

CalculateEMA ==
    \E closes \in CloseSeries : \E period \in Periods :
        /\ probe' = IF calculateEMAThrows(BarsOf(closes), period)
                     THEN IndicatorResult("calculateEMA", closes, period, TRUE,
                                          <<>>)
                     ELSE IndicatorResult("calculateEMA", closes, period, FALSE,
                                          calculateEMA(BarsOf(closes), period))
        /\ UNCHANGED <<appVars, storeVars, lastCall, cashAtLoad,
                       startIndexAtLoad, pc, pending>>

CalculateBollingerBands ==
    \E closes \in CloseSeries : \E period \in Periods :
        /\ probe' = IndicatorResult("calculateBollingerBands", closes, period,
                                    FALSE,
                                    calculateBollingerBands(BarsOf(closes),
                                                            period, 2))
        /\ UNCHANGED <<appVars, storeVars, lastCall, cashAtLoad,
                       startIndexAtLoad, pc, pending>>

CalculateRSI ==
    \E closes \in CloseSeries : \E period \in Periods :
        /\ probe' = IF calculateRSIThrows(BarsOf(closes), period)
                     THEN IndicatorResult("calculateRSI", closes, period, TRUE,
                                          <<>>)
                     ELSE IndicatorResult("calculateRSI", closes, period, FALSE,
                                          calculateRSI(BarsOf(closes), period))
        /\ UNCHANGED <<appVars, storeVars, lastCall, cashAtLoad,
                       startIndexAtLoad, pc, pending>>

IndicatorNext ==
    \/ CalculateSMA
    \/ CalculateEMA
    \/ CalculateBollingerBands
    \/ CalculateRSI

IndicatorSpec == Init /\ [][IndicatorNext]_vars

\* vocabulary of the indicator claims
IndicatorCalled ==
    /\ probe # Null
    /\ probe.fn \in {"calculateSMA", "calculateEMA",
                     "calculateBollingerBands", "calculateRSI"}

\* the series a call returned; the middle band stands for the three bands,
\* which have the same times
ProbeSeries ==
    IF probe.fn = "calculateBollingerBands" THEN probe.result.middle
    ELSE probe.result

\* the mean of closes[lo .. hi], added up from the first to the last
RECURSIVE SumUp(_, _, _)
SumUp(closes, lo, hi) ==
    IF lo > hi THEN RZero ELSE RAdd(closes[lo], SumUp(closes, lo + 1, hi))

MeanOf(closes, lo, hi) == RDiv(SumUp(closes, lo, hi), R(hi - lo + 1))

(***************************************************************************)
(* C23: each of SMA, EMA, Bollinger Bands and RSI emits its first point    *)
(* at bar index period - 1 and nothing earlier, and on fewer bars than it  *)
(* needs it returns an empty series: no value made up, no failure.         *)
(***************************************************************************)
C23_FirstPointAndShortInput ==
    IndicatorCalled =>
        /\ ~probe.threw
        /\ Len(probe.closes) < probe.period => Len(ProbeSeries) = 0
        /\ Len(ProbeSeries) > 0 => ProbeSeries[1].time = probe.period - 1

(***************************************************************************)
(* C24: for 1 <= period <= len, calculateSMA returns len - period + 1      *)
(* points, point k (from 0) carrying the time of bar period - 1 + k and    *)
(* the mean of the closes of bars k .. k + period - 1; calculateEMA        *)
(* returns as many points and its first value is that of the SMA.          *)
(***************************************************************************)
C24_SMAAndEMAShape ==
    (/\ IndicatorCalled
     /\ probe.fn \in {"calculateSMA", "calculateEMA"}
     /\ probe.period <= Len(probe.closes)) =>
        /\ ~probe.threw
        /\ Len(probe.result) = Len(probe.closes) - probe.period + 1
        /\ probe.result[1].value = MeanOf(probe.closes, 1, probe.period)
        /\ probe.fn = "calculateSMA" =>
              \A k \in 0..(Len(probe.result) - 1) :
                  /\ probe.result[k + 1].time = probe.period - 1 + k
                  /\ probe.result[k + 1].value =
                        MeanOf(probe.closes, k + 1, k + probe.period)

\* an average of three bars that differ, over four bars
C24_Witness ==
    /\ IndicatorCalled
    /\ probe.fn = "calculateSMA"
    /\ probe.period = 3
    /\ Len(probe.closes) = 4
    /\ Len(probe.result) = 2
    /\ probe.result[1].value # probe.result[2].value

\* the smoothed averages behind point k of an RSI call
ProbeAvgGain(k) ==
    rsiAverage(rsiGains(BarsOf(probe.closes)), probe.period,
               probe.period + k - 1)

ProbeAvgLoss(k) ==
    rsiAverage(rsiLosses(BarsOf(probe.closes)), probe.period,
               probe.period + k - 1)

RSIReturned ==
    /\ IndicatorCalled
    /\ probe.fn = "calculateRSI"
    /\ ~probe.threw

(***************************************************************************)
(* C25: at every bar where the smoothed average loss is exactly zero,      *)
(* calculateRSI emits the value 100.                                       *)
(***************************************************************************)
C25_ZeroLossGives100 ==
    RSIReturned =>
        \A k \in 1..Len(probe.result) :
            ProbeAvgLoss(k) = RZero => probe.result[k].value = R(100)

(***************************************************************************)
(* C26: on a series of more than period bars with positive finite closes,  *)
(* every value calculateRSI emits lies in the closed interval [0, 100].    *)
(***************************************************************************)
C26_RSIRange ==
    (RSIReturned /\ Len(probe.closes) > probe.period) =>
        \A k \in 1..Len(probe.result) :
            /\ RLe(RZero, probe.result[k].value)
            /\ RLe(probe.result[k].value, R(100))

\* a series that only falls gives 0, and one that rises and falls gives a
\* value strictly inside the interval
C26_Witness ==
    /\ RSIReturned
    /\ Len(probe.result) >= 2
    /\ probe.result[1].value = RZero
    /\ RLt(RZero, probe.result[2].value)
    /\ RLt(probe.result[2].value, R(99))


(***************************************************************************)
(* The outcome a turn records, read against the call that made the turn.   *)
(***************************************************************************)
RecordedOutcome == Last(turnOutcomes')

(***************************************************************************)
(* C27: every recorded outcome with action 'buy' has inferredPrediction    *)
(* 'up' and every one with action 'sell', full or partial, has             *)
(* inferredPrediction 'down'.                                              *)
(***************************************************************************)
C27_ActionDecidesPrediction ==
    \A k \in DOMAIN turnOutcomes :
        /\ turnOutcomes[k].action = "buy" =>
              turnOutcomes[k].inferredPrediction = "up"
        /\ turnOutcomes[k].action = "sell" =>
              turnOutcomes[k].inferredPrediction = "down"

C30_PositionSnapshots ==
    [][TurnRecorded =>
          /\ RecordedOutcome.positionBeforeAction = position
          /\ RecordedOutcome.positionAfterAction = position'
          /\ lastCall'.op \in {"buy", "sell"} =>
                RecordedOutcome.positionBeforeAction #
                    RecordedOutcome.positionAfterAction
          /\ lastCall'.op = "skip" =>
                RecordedOutcome.positionBeforeAction =
                    RecordedOutcome.positionAfterAction]_vars


(***************************************************************************)
(* calculateOutcome called on its own, as the store exposes it, between    *)
(* the turns of a short game.  A call is modelled by the store it leaves   *)
(* and the value it returns; probe keeps the fields the call read, what it *)
(* returned and how many calls in a row have been made.                    *)
(***************************************************************************)
\* faulty variant: the call consumes lastAction
calculateOutcomeCall_ClearsAction(s) ==
    [state |-> [s EXCEPT !.lastAction = "null"],
     result |-> calculateOutcome(s)]

calculateOutcomeCall(s) == [state |-> s, result |-> calculateOutcome(s)]

MaxOutcomeTurns == 2

MaxQueries == 2

OutcomeLoadStock ==
    \E t \in Tickers : \E startIndex \in StartIndexes(t) :
        /\ currentStock = NullStock
        /\ Install(loadStock(Store, t, startIndex))
        /\ lastCall' = Call("loadStock", R(startIndex), FALSE)
        /\ cashAtLoad' = cash
        /\ startIndexAtLoad' = startIndex
        /\ UNCHANGED <<pc, pending, probe, appVars>>

OutcomeSkip ==
    /\ turnNumber < MaxOutcomeTurns
    /\ Install(skip(Store))
    /\ lastCall' = Call("skip", RZero, FALSE)
    /\ UNCHANGED <<cashAtLoad, startIndexAtLoad, pc, pending, probe, appVars>>

OutcomeBuy ==
    \E percentage \in Percentages :
        /\ turnNumber < MaxOutcomeTurns
        /\ Install(buy(Store, percentage))
        /\ lastCall' = Call("buy", percentage, buyThrows(Store, percentage))
        /\ UNCHANGED <<cashAtLoad, startIndexAtLoad, pc, pending, probe, appVars>>

OutcomeSell ==
    \E percentage \in Percentages :
        /\ turnNumber < MaxOutcomeTurns
        /\ Install(sell(Store, percentage))
        /\ lastCall' = Call("sell", percentage, sellThrows(Store, percentage))
        /\ UNCHANGED <<cashAtLoad, startIndexAtLoad, pc, pending, probe, appVars>>

\* how many calls of calculateOutcome in a row the one made now is
QueryNumber ==
    IF lastCall.op = "calculateOutcome" THEN probe.nth + 1 ELSE 1

CalculateOutcome ==
    /\ QueryNumber <= MaxQueries
    /\ Install(calculateOutcomeCall(Store).state)
    /\ probe' = [fn |-> "calculateOutcome",
                 currentStock |-> currentStock,
                 currentBarIndex |-> currentBarIndex,
                 position |-> position,
                 turnNumber |-> turnNumber,
                 lastAction |-> lastAction,
                 nth |-> QueryNumber,
                 result |-> calculateOutcomeCall(Store).result]
    /\ lastCall' = Call("calculateOutcome", RZero, FALSE)
    /\ UNCHANGED <<cashAtLoad, startIndexAtLoad, pc, pending, appVars>>

OutcomeNext ==
    \/ OutcomeLoadStock
    \/ OutcomeSkip
    \/ OutcomeBuy
    \/ OutcomeSell
    \/ CalculateOutcome

OutcomeSpec == Init /\ [][OutcomeNext]_vars

\* the call before was made on the bars, bar index, position, turn number
\* and last action of the state now
SameQueryState ==
    /\ probe # Null
    /\ probe.fn = "calculateOutcome"
    /\ probe.currentStock = currentStock
    /\ probe.currentBarIndex = currentBarIndex
    /\ probe.position = position
    /\ probe.turnNumber = turnNumber
    /\ probe.lastAction = lastAction

C31_SwitchStockFrame ==
    [][lastCall'.op = "switchStock" =>
          /\ UNCHANGED <<currentStock, currentBarIndex, turnNumber,
                         turnOutcomes>>
          /\ sessionStats'.totalTurns = sessionStats.totalTurns
          /\ TalliesUnchanged
          /\ SharesHeld = RZero =>
                /\ UNCHANGED <<cash, position, trades, holdingPeriods,
                               sessionStats, turnStartTime, isLoading,
                               lastAction, lastOutcome>>
                /\ currentStock = NullStock =>
                      UNCHANGED <<showRevealCard, revealedStock>>
                /\ currentStock # NullStock =>
                      /\ showRevealCard'
                      /\ revealedStock' =
                            [ticker |-> currentStock,
                             startDate |-> Bars[currentStock][1].time,
                             endDate |-> Last(Bars[currentStock]).time,
                             barCount |-> Len(Bars[currentStock])]]_vars

\* the card of instrument A shown after a skipped turn, nothing held
C31_Witness ==
    /\ lastCall.op = "switchStock"
    /\ showRevealCard
    /\ revealedStock # Null
    /\ revealedStock.ticker = "A"
    /\ trades = <<>>
    /\ position = Null
    /\ turnNumber = 1

(***************************************************************************)
(* C32: along loadStock, skip, buy, sell and switchStock (no resetSession, *)
(* no resetAllStats) totalTurns, totalTrades, wins, losses, flats,         *)
(* chartsViewed and bestStreak never decrease and worstStreak never        *)
(* increases.                                                              *)
(***************************************************************************)
C32_StatsMonotone ==
    [][lastCall'.op \in {"loadStock", "skip", "buy", "sell", "switchStock"} =>
          /\ sessionStats'.totalTurns >= sessionStats.totalTurns
          /\ sessionStats'.totalTrades >= sessionStats.totalTrades
          /\ sessionStats'.wins >= sessionStats.wins
          /\ sessionStats'.losses >= sessionStats.losses
          /\ sessionStats'.flats >= sessionStats.flats
          /\ sessionStats'.chartsViewed >= sessionStats.chartsViewed
          /\ sessionStats'.bestStreak >= sessionStats.bestStreak
          /\ sessionStats'.worstStreak <= sessionStats.worstStreak]_vars

\* a loss after a win: the running streak turns and the best one stays
C32_Witness ==
    /\ lastCall.op \in TurnCalls
    /\ sessionStats.bestStreak = 1
    /\ sessionStats.worstStreak = -1
    /\ sessionStats.currentStreak = -1
    /\ sessionStats.chartsViewed = 1

(***************************************************************************)
(* C36: between a loadStock(stock, startIndex) and the next load or reset  *)
(* currentBarIndex = startIndex + turnNumber; every accepted skip, buy and *)
(* sell adds exactly 1 to both, and switchStock and rejected calls change  *)
(* neither.                                                                *)
(***************************************************************************)
AcceptedTurn(op, p) ==
    \/ op = "skip" /\ currentStock # NullStock
    \/ op = "buy" /\ BuyAccepted(p)
    \/ op = "sell" /\ SellAccepted(p)

C36_TurnBarLockstep ==
    /\ [](currentStock # NullStock =>
            currentBarIndex = startIndexAtLoad + turnNumber)
    /\ [][(AcceptedTurn(lastCall'.op, lastCall'.arg) =>
                /\ currentBarIndex' = currentBarIndex + 1
                /\ turnNumber' = turnNumber + 1)
          /\ ((\/ lastCall'.op = "switchStock"
               \/ RejectedCall(lastCall'.op, lastCall'.arg)) =>
                UNCHANGED <<currentBarIndex, turnNumber>>)]_vars

\* a second chart, one turn in, after a rejected call
C36_Witness ==
    /\ sessionStats.chartsViewed = 2
    /\ turnNumber = 1
    /\ currentBarIndex = startIndexAtLoad + 1
    /\ lastCall.op = "sell"
    /\ lastCall.arg = R(101)
    /\ sessionStats.totalTurns = 2

(***************************************************************************)
(* The tallies of the verdicts, and what one step appends to the logs.     *)
(***************************************************************************)
Verdicted(st) == st.wins + st.losses + st.flats

Resets == {"resetSession", "resetAllStats"}

TradesAppended ==
    IF lastCall'.op = "loadStock" THEN 0 ELSE Len(trades') - Len(trades)

OutcomesAppended ==
    IF lastCall'.op = "loadStock" THEN 0
    ELSE Len(turnOutcomes') - Len(turnOutcomes)

(***************************************************************************)
(* C37: from the initial stats, totalTrades is the number of Trade records *)
(* appended since the last reset (by buy, sell and the liquidation of      *)
(* switchStock, over all loads), wins + losses + flats is the number of    *)
(* TurnOutcomes recorded since the last reset and is at most totalTurns,   *)
(* and decisionTimes has totalTurns entries.  The two counts are zero      *)
(* after a reset and each step adds to them what it appends to the logs.   *)
(***************************************************************************)
C37_CountersMatchLogs ==
    /\ [](/\ Verdicted(sessionStats) <= sessionStats.totalTurns
          /\ Len(sessionStats.decisionTimes) = sessionStats.totalTurns
          /\ lastCall.op \in Resets \cup {"init"} =>
                sessionStats.totalTrades = 0 /\ Verdicted(sessionStats) = 0)
    /\ [][lastCall'.op \notin Resets =>
            /\ sessionStats'.totalTrades =
                  sessionStats.totalTrades + TradesAppended
            /\ Verdicted(sessionStats') =
                  Verdicted(sessionStats) + OutcomesAppended]_vars

\* a buy on the second chart, after the first one was bought and switched
\* away from
C37_Witness ==
    /\ sessionStats.chartsViewed = 2
    /\ sessionStats.totalTrades = 3
    /\ Len(trades) = 1
    /\ Len(sessionStats.decisionTimes) = 2
    /\ Verdicted(sessionStats) = 2

(***************************************************************************)
(* C38: from the initial stats, every reachable state has                  *)
(* worstStreak <= currentStreak <= bestStreak, bestStreak >= 0 >=          *)
(* worstStreak, bestStreak <= wins and -worstStreak <= losses.             *)
(***************************************************************************)
C38_StreakBounds ==
    /\ sessionStats.worstStreak <= sessionStats.currentStreak
    /\ sessionStats.currentStreak <= sessionStats.bestStreak
    /\ sessionStats.bestStreak >= 0
    /\ 0 >= sessionStats.worstStreak
    /\ sessionStats.bestStreak <= sessionStats.wins
    /\ -sessionStats.worstStreak <= sessionStats.losses

\* a loss, a flat turn and a win
C38_Witness ==
    /\ sessionStats.losses = 1
    /\ sessionStats.flats = 1
    /\ sessionStats.wins = 1
    /\ sessionStats.currentStreak = 1
    /\ sessionStats.bestStreak = 1
    /\ sessionStats.worstStreak = -1

(***************************************************************************)
(* C39: every closed HoldingPeriod has exitBarIndex > entryBarIndex, the   *)
(* entry and exit prices are the closes of the current instrument at those *)
(* bars, period k ends no later than period k + 1 starts, and no period    *)
(* refers to a bar after currentBarIndex.                                  *)
(***************************************************************************)
C39_HoldingPeriodsWellFormed ==
    \A k \in DOMAIN holdingPeriods :
        LET hp == holdingPeriods[k]
        IN  /\ currentStock # NullStock
            /\ hp.entryBarIndex <= currentBarIndex
            /\ hp.entryPrice = BarAt(currentStock, hp.entryBarIndex).close
            /\ k \in ClosedHoldingPeriods =>
                  /\ hp.exitBarIndex > hp.entryBarIndex
                  /\ hp.exitBarIndex <= currentBarIndex
                  /\ hp.exitPrice = BarAt(currentStock, hp.exitBarIndex).close
            /\ k < Len(holdingPeriods) =>
                  /\ k \in ClosedHoldingPeriods
                  /\ hp.exitBarIndex <= holdingPeriods[k + 1].entryBarIndex

\* bought, sold, bought again and switched away from: two closed periods
C39_Witness ==
    /\ Len(holdingPeriods) = 2
    /\ ClosedHoldingPeriods = {1, 2}
    /\ holdingPeriods[1].exitBarIndex = 61
    /\ holdingPeriods[2].entryBarIndex = 62
    /\ holdingPeriods[2].exitBarIndex = 63

HistogramData(time, value, color) ==
    [time |-> time, value |-> value, color |-> color]

\* the macd line before it is cut: one point for each point of the slow EMA
macdLineOf(bars, fastPeriod, slowPeriod) ==
    LET fastEMA == calculateEMA(bars, fastPeriod)
        slowEMA == calculateEMA(bars, slowPeriod)
        offset == slowPeriod - fastPeriod
    IN  [i \in 1..Len(slowEMA) |->
            LineData(slowEMA[i].time,
                     RSub(fastEMA[i + offset].value, slowEMA[i].value))]

RECURSIVE signalEMAAt(_, _, _)
signalEMAAt(macdLine, signalPeriod, i) ==
    LET multiplier == RDiv(R(2), R(signalPeriod + 1))
    IN  IF i = signalPeriod
        THEN RDiv(SumOf([k \in 1..signalPeriod |-> macdLine[k].value],
                        signalPeriod),
                  R(signalPeriod))
        ELSE LET signalEMA == signalEMAAt(macdLine, signalPeriod, i - 1)
             IN  RAdd(RMul(RSub(macdLine[i].value, signalEMA), multiplier),
                      signalEMA)

signalLineOf(macdLine, signalPeriod) ==
    [k \in 1..Max(Len(macdLine) - signalPeriod + 1, 0) |->
        LineData(macdLine[k + signalPeriod - 1].time,
                 signalEMAAt(macdLine, signalPeriod, k + signalPeriod - 1))]

histogramOf(macdLine, signalLine, signalPeriod) ==
    LET histogramOffset == signalPeriod - 1
    IN  [i \in 1..Len(signalLine) |->
            LET histValue == RSub(macdLine[i + histogramOffset].value,
                                  signalLine[i].value)
            IN  HistogramData(signalLine[i].time, histValue,
                              IF RLe(RZero, histValue) THEN "#22c55e"
                              ELSE "#ef4444")]

\* an EMA of too few bars, fastEMA[i + offset] of a negative index, or
\* macdLine[i] past the end of the macd line
calculateMACDThrows(bars, fastPeriod, slowPeriod, signalPeriod) ==
    \/ calculateEMAThrows(bars, fastPeriod)
    \/ calculateEMAThrows(bars, slowPeriod)
    \/ slowPeriod < fastPeriod
    \/ Len(bars) - slowPeriod + 1 < signalPeriod

\* faulty variant: the macd line is returned whole
calculateMACD_Unsliced(bars, fastPeriod, slowPeriod, signalPeriod) ==
    LET macdLine == macdLineOf(bars, fastPeriod, slowPeriod)
        signalLine == signalLineOf(macdLine, signalPeriod)
    IN  [macdLine |-> macdLine,
         signalLine |-> signalLine,
         histogram |-> histogramOf(macdLine, signalLine, signalPeriod)]

calculateMACD(bars, fastPeriod, slowPeriod, signalPeriod) ==
    LET macdLine == macdLineOf(bars, fastPeriod, slowPeriod)
        signalLine == signalLineOf(macdLine, signalPeriod)
        histogramOffset == signalPeriod - 1
    IN  [macdLine |-> SubSeq(macdLine, histogramOffset + 1, Len(macdLine)),
         signalLine |-> signalLine,
         histogram |-> histogramOf(macdLine, signalLine, signalPeriod)]

MaxMACDBars == 5

MaxSlowPeriod == 3

MaxSignalPeriod == 2

MACDCloseSeries == UNION {[1..n -> IndicatorCloses] : n \in 0..MaxMACDBars}

CalculateMACD ==
    \E closes \in MACDCloseSeries :
      \E fastPeriod \in 1..MaxSlowPeriod : \E slowPeriod \in 1..MaxSlowPeriod :
        \E signalPeriod \in 1..MaxSignalPeriod :
          LET bars == BarsOf(closes)
              threw == calculateMACDThrows(bars, fastPeriod, slowPeriod,
                                           signalPeriod)
          IN  /\ probe = Null
              /\ probe' = [fn |-> "calculateMACD",
                           closes |-> closes,
                           fastPeriod |-> fastPeriod,
                           slowPeriod |-> slowPeriod,
                           signalPeriod |-> signalPeriod,
                           threw |-> threw,
                           result |-> IF threw THEN Null
                                      ELSE calculateMACD(bars, fastPeriod,
                                                         slowPeriod,
                                                         signalPeriod)]
              /\ UNCHANGED <<appVars, storeVars, lastCall, cashAtLoad,
                             startIndexAtLoad, pc, pending>>

MACDNext == CalculateMACD

MACDSpec == Init /\ [][MACDNext]_vars

\* the value of the point of a series at a bar
ValueAtBar(series, time) ==
    series[CHOOSE k \in DOMAIN series : series[k].time = time].value

\* EMA(fast) - EMA(slow) of the probed bars at a bar
ProbeMACDAt(time) ==
    RSub(ValueAtBar(calculateEMA(BarsOf(probe.closes), probe.fastPeriod), time),
         ValueAtBar(calculateEMA(BarsOf(probe.closes), probe.slowPeriod), time))

(***************************************************************************)
(* C35: with fastPeriod < slowPeriod and at least                          *)
(* slowPeriod + signalPeriod - 1 bars, calculateMACD returns three series  *)
(* of length len - slowPeriod - signalPeriod + 2 whose i-th points carry   *)
(* the time of bar slowPeriod + signalPeriod - 2 + i; a macd value is      *)
(* EMA(fast) - EMA(slow) at that bar, the signal starts at the mean of the *)
(* first signalPeriod values of EMA(fast) - EMA(slow) and follows the EMA  *)
(* recurrence, histogram = macd - signal, and the colour is green exactly  *)
(* when that is >= 0.                                                      *)
(***************************************************************************)
C35_MACDShape ==
    (/\ probe # Null
     /\ probe.fn = "calculateMACD"
     /\ probe.fastPeriod < probe.slowPeriod
     /\ Len(probe.closes) >= probe.slowPeriod + probe.signalPeriod - 1) =>
        LET n == Len(probe.closes) - probe.slowPeriod - probe.signalPeriod + 2
            first == probe.slowPeriod + probe.signalPeriod - 2
            multiplier == RDiv(R(2), R(probe.signalPeriod + 1))
            r == probe.result
        IN  /\ ~probe.threw
            /\ Len(r.macdLine) = n
            /\ Len(r.signalLine) = n
            /\ Len(r.histogram) = n
            /\ \A i \in 0..(n - 1) :
                  /\ r.macdLine[i + 1].time = first + i
                  /\ r.signalLine[i + 1].time = first + i
                  /\ r.histogram[i + 1].time = first + i
                  /\ r.macdLine[i + 1].value = ProbeMACDAt(first + i)
                  /\ r.histogram[i + 1].value =
                        RSub(r.macdLine[i + 1].value, r.signalLine[i + 1].value)
                  /\ r.histogram[i + 1].color = "#22c55e" <=>
                        RLe(RZero, r.histogram[i + 1].value)
                  /\ r.histogram[i + 1].color \in {"#22c55e", "#ef4444"}
                  /\ i > 0 =>
                        r.signalLine[i + 1].value =
                            RAdd(RMul(RSub(r.macdLine[i + 1].value,
                                           r.signalLine[i].value), multiplier),
                                 r.signalLine[i].value)
            /\ r.signalLine[1].value =
                  RDiv(SumOf([k \in 1..probe.signalPeriod |->
                                 ProbeMACDAt(probe.slowPeriod - 2 + k)],
                             probe.signalPeriod),
                       R(probe.signalPeriod))

\* both colours in one histogram, with a signal of two periods
C35_Witness ==
    /\ probe # Null
    /\ probe.fn = "calculateMACD"
    /\ ~probe.threw
    /\ probe.fastPeriod < probe.slowPeriod
    /\ probe.signalPeriod = 2
    /\ Len(probe.result.histogram) >= 2
    /\ \E i, j \in DOMAIN probe.result.histogram :
          /\ probe.result.histogram[i].color = "#22c55e"
          /\ probe.result.histogram[j].color = "#ef4444"

(***************************************************************************)
(* The App component (src/deploy.sh) and the data layer it calls           *)
(* (src/unnamed/part_001).  A promise the code awaits is an element of the *)
(* bag inFlight: kind names the function that awaits it, ticker the        *)
(* instrument it loads and how what it waits for ("index": the metadata,   *)
(* "fetch": a fetch or a dynamic import, "cached": data found in the       *)
(* cache, "null": loadRandomStock found the index empty).  One step is one *)
(* event of the browser: mounting, a key press, a click on the confirm     *)
(* button, or a promise settling together with the continuation it wakes.  *)
(* The tickers of the model are in upper case, so toUpperCase changes      *)
(* nothing.  The indicators panel is closed and selectedPercentage is an   *)
(* input of the key press.                                                 *)
(***************************************************************************)
\* the index the metadata can hold; "A" is bundled, LongTicker is fetched
BUNDLED_STOCKS == {"A"}

StockIndexes == {<<>>, <<"A">>, <<"A", LongTicker>>}

Promise(kind, ticker, how) == [kind |-> kind, ticker |-> ticker, how |-> how]

DataLayer ==
    [stockIndex |-> stockIndex,
     stockDataCache |-> stockDataCache,
     preloadingTicker |-> preloadingTicker,
     inFlight |-> inFlight]

InstallData(d) ==
    /\ stockIndex' = d.stockIndex
    /\ stockDataCache' = d.stockDataCache
    /\ preloadingTicker' = d.preloadingTicker
    /\ inFlight' = d.inFlight

\* array[Math.floor(Math.random() * array.length)]
RandomOf(array, random) == array[MathFloor(RMul(random, R(Len(array)))) + 1]

\* loadStockData up to its first await
loadStockData(d, kind, ticker) ==
    IF ticker \in d.stockDataCache
    THEN [d EXCEPT !.inFlight = @ (+) SetToBag({Promise(kind, ticker, "cached")})]
    ELSE [d EXCEPT !.inFlight = @ (+) SetToBag({Promise(kind, ticker, "fetch")})]

\* the rest of loadStockData: the data is cached if the fetch succeeded
loadStockDataSettles(d, p, ok) ==
    [d EXCEPT !.inFlight = @ (-) SetToBag({p}),
              !.stockDataCache = IF ok /\ p.how = "fetch" THEN @ \cup {p.ticker}
                                 ELSE @]

bundledStocks(d) == SelectSeq(d.stockIndex, LAMBDA t : t \in BUNDLED_STOCKS)

fetchedStocks(d) == SelectSeq(d.stockIndex, LAMBDA t : t \notin BUNDLED_STOCKS)

loadRandomStock(d, kind, preferBundled, random) ==
    IF Len(d.stockIndex) = 0
    THEN [d EXCEPT !.inFlight = @ (+) SetToBag({Promise(kind, NullStock, "null")})]
    ELSE IF preferBundled /\ Len(bundledStocks(d)) > 0
    THEN loadStockData(d, kind, RandomOf(bundledStocks(d), random))
    ELSE loadStockData(d, kind, RandomOf(d.stockIndex, random))

\* preloadNextStock up to its await
preloadNextStock(d, random) ==
    IF Len(d.stockIndex) = 0 THEN d
    ELSE IF Len(fetchedStocks(d)) = 0
    THEN LET ticker == RandomOf(d.stockIndex, random)
         IN  IF ticker \in d.stockDataCache THEN d
             ELSE loadStockData([d EXCEPT !.preloadingTicker = ticker],
                                "preloadNextStock", ticker)
    ELSE LET ticker == RandomOf(fetchedStocks(d), random)
         IN  IF ticker \in d.stockDataCache \/ d.preloadingTicker = ticker
             THEN d
             ELSE loadStockData([d EXCEPT !.preloadingTicker = ticker],
                                "preloadNextStock", ticker)

setLoading(s, loading) == [s EXCEPT !.isLoading = loading]

hideRevealCard(s) ==
    [s EXCEPT !.showRevealCard = FALSE, !.revealedStock = Null]

\* the state the handlers of the App read and write, and the call they
\* made on the store ("keydown" when a key press called nothing)
App ==
    [store |-> Store,
     data |-> DataLayer,
     showSwitchConfirm |-> showSwitchConfirm,
     call |-> Call("none", RZero, FALSE)]

handleSkip(a, random) ==
    IF a.store.isLoading THEN a
    ELSE [a EXCEPT !.store = skip(@),
                   !.data = preloadNextStock(@, random),
                   !.call = Call("skip", RZero, FALSE)]

handleBuy(a, selectedPercentage, random) ==
    IF a.store.isLoading \/ RLe(a.store.cash, RZero) THEN a
    ELSE IF buyThrows(a.store, selectedPercentage)
    THEN [a EXCEPT !.call = Call("buy", selectedPercentage, TRUE)]
    ELSE [a EXCEPT !.store = buy(@, selectedPercentage),
                   !.data = preloadNextStock(@, random),
                   !.call = Call("buy", selectedPercentage, FALSE)]

handleSell(a, selectedPercentage, random) ==
    IF \/ a.store.isLoading
       \/ a.store.position = Null
       \/ RLe(a.store.position.shares, RZero)
    THEN a
    ELSE IF sellThrows(a.store, selectedPercentage)
    THEN [a EXCEPT !.call = Call("sell", selectedPercentage, TRUE)]
    ELSE [a EXCEPT !.store = sell(@, selectedPercentage),
                   !.data = preloadNextStock(@, random),
                   !.call = Call("sell", selectedPercentage, FALSE)]

handleSwitchConfirm(a) ==
    [a EXCEPT !.showSwitchConfirm = FALSE,
              !.store = switchStock(@),
              !.call = Call("switchStock", RZero, switchStockThrows(a.store))]

handleSwitchClick(a) ==
    IF a.store.isLoading THEN a
    ELSE IF a.store.position # Null /\ RLt(RZero, a.store.position.shares)
    THEN [a EXCEPT !.showSwitchConfirm = TRUE]
    ELSE handleSwitchConfirm(a)

\* faulty variant: the card is hidden but the loading flag is not raised
handleRevealDismiss_NotLoading(a, random) ==
    [a EXCEPT !.store = hideRevealCard(@),
              !.data = loadRandomStock(@, "handleRevealDismiss", FALSE, random),
              !.call = Call("hideRevealCard", RZero, FALSE)]

\* handleRevealDismiss up to its await
handleRevealDismiss(a, random) ==
    [a EXCEPT !.store = setLoading(hideRevealCard(@), TRUE),
              !.data = loadRandomStock(@, "handleRevealDismiss", FALSE, random),
              !.call = Call("hideRevealCard", RZero, FALSE)]

\* the rest of initGame and of handleRevealDismiss, stock being what
\* loadRandomStock returned
afterLoadRandomStock(a, stock, timeScale, random1, random2) ==
    IF stock # NullStock
    THEN LET startIndex == selectRandomStartIndex(Len(Bars[stock]), timeScale,
                                                  random1)
         IN  [a EXCEPT !.store = setLoading(loadStock(@, stock, startIndex),
                                            FALSE),
                       !.data = preloadNextStock(@, random2),
                       !.call = Call("loadStock", R(startIndex), FALSE)]
    ELSE [a EXCEPT !.store = setLoading(@, FALSE),
                   !.call = Call("setLoading", RZero, FALSE)]

handleKeyDown(a, key, selectedPercentage, random) ==
    IF a.store.showRevealCard
    THEN IF key \in {"Enter", " "} THEN handleRevealDismiss(a, random) ELSE a
    ELSE IF a.showSwitchConfirm
    THEN IF key = "Escape" THEN [a EXCEPT !.showSwitchConfirm = FALSE] ELSE a
    ELSE CASE key = " " -> handleSkip(a, random)
           [] key = "b" -> handleBuy(a, selectedPercentage, random)
           [] key = "s" -> handleSell(a, selectedPercentage, random)
           [] key = "n" -> handleSwitchClick(a)
           [] OTHER -> a

MaxAppTurns == 2

MaxAppCharts == 2

MaxInFlight == 2

\* the values the digit keys give selectedPercentage
AppPercentages == {R(50), R(100)}

AppDraws == {R(0), Norm(1, 2)}

\* settings store: the default time scale
DefaultTimeScale == "6m-daily"

InFlightOf(kinds) == {p \in BagToSet(inFlight) : p.kind \in kinds}

\* the mount effect: initGame up to its first await
Mount ==
    /\ ~mounted
    /\ mounted' = TRUE
    /\ IF currentStock = NullStock
       THEN /\ Install(setLoading(Store, TRUE))
            /\ inFlight' = inFlight (+)
                              SetToBag({Promise("initGame", NullStock, "index")})
       ELSE UNCHANGED <<storeVars, inFlight>>
    /\ lastCall' = Call("setLoading", RZero, FALSE)
    /\ UNCHANGED <<stockIndex, stockDataCache, preloadingTicker,
                   showSwitchConfirm, cashAtLoad, startIndexAtLoad, pc,
                   pending, probe>>

\* initializeStockIndex returns (it never throws) and initGame calls
\* loadRandomStock(true)
IndexSettles ==
    \E p \in InFlightOf({"initGame"}) : \E index \in StockIndexes :
      \E random \in AppDraws :
        /\ p.how = "index"
        /\ InstallData(loadRandomStock(
               [DataLayer EXCEPT !.stockIndex = index,
                                 !.inFlight = @ (-) SetToBag({p})],
               "initGame", TRUE, random))
        /\ lastCall' = Call("none", RZero, FALSE)
        /\ UNCHANGED <<storeVars, showSwitchConfirm, mounted, cashAtLoad,
                       startIndexAtLoad, pc, pending, probe>>

\* the promise of loadRandomStock settles in initGame or handleRevealDismiss
LoadSettles ==
    \E p \in InFlightOf({"initGame", "handleRevealDismiss"}) :
      \E ok \in BOOLEAN : \E random1 \in AppDraws : \E random2 \in AppDraws :
        LET a0 == [App EXCEPT !.data = loadStockDataSettles(@, p, ok)]
            a == afterLoadRandomStock(a0, IF ok THEN p.ticker ELSE NullStock,
                                      DefaultTimeScale, random1, random2)
        IN  /\ p.how # "index"
            /\ p.how = "cached" => ok
            /\ p.how = "null" => ~ok
            /\ Install(a.store)
            /\ InstallData(a.data)
            /\ lastCall' = a.call
            /\ cashAtLoad' = IF ok THEN cash ELSE cashAtLoad
            /\ startIndexAtLoad' = IF ok THEN a.store.currentBarIndex
                                   ELSE startIndexAtLoad
            /\ UNCHANGED <<showSwitchConfirm, mounted, pc, pending, probe>>

\* the promise of loadStockData settles in preloadNextStock
PreloadSettles ==
    \E p \in InFlightOf({"preloadNextStock"}) : \E ok \in BOOLEAN :
        /\ InstallData([loadStockDataSettles(DataLayer, p, ok)
                           EXCEPT !.preloadingTicker = NullStock])
        /\ lastCall' = Call("none", RZero, FALSE)
        /\ UNCHANGED <<storeVars, showSwitchConfirm, mounted, cashAtLoad,
                       startIndexAtLoad, pc, pending, probe>>

KeyDown ==
    \E key \in {" ", "b", "s", "n", "Enter", "Escape"} :
      \E selectedPercentage \in AppPercentages : \E random \in AppDraws :
        LET a == handleKeyDown([App EXCEPT !.call = Call("keydown", RZero, FALSE)],
                               key, selectedPercentage, random)
        IN  /\ mounted
            /\ a.store.sessionStats.totalTurns <= MaxAppTurns
            /\ BagCardinality(a.data.inFlight) <= MaxInFlight
            /\ a.call.op = "switchStock"
                  => sessionStats.chartsViewed < MaxAppCharts
            /\ Install(a.store)
            /\ InstallData(a.data)
            /\ showSwitchConfirm' = a.showSwitchConfirm
            /\ lastCall' = a.call
            /\ UNCHANGED <<mounted, cashAtLoad, startIndexAtLoad, pc, pending,
                           probe>>

\* a click on the confirm button of the switch modal
ClickSwitchConfirm ==
    LET a == handleSwitchConfirm(App)
    IN  /\ showSwitchConfirm
        /\ sessionStats.chartsViewed < MaxAppCharts
        /\ Install(a.store)
        /\ InstallData(a.data)
        /\ showSwitchConfirm' = a.showSwitchConfirm
        /\ lastCall' = a.call
        /\ UNCHANGED <<mounted, cashAtLoad, startIndexAtLoad, pc, pending,
                       probe>>

AppNext ==
    \/ Mount
    \/ IndexSettles
    \/ LoadSettles
    \/ PreloadSettles
    \/ KeyDown
    \/ ClickSwitchConfirm

AppSpec == Init /\ [][AppNext]_vars

(***************************************************************************)
(* Claims about the App and the data layer.                                *)
(***************************************************************************)
AppTickers == {"A", LongTicker}

\* the fetches of a ticker that have been started and have not settled
FetchesInFlight(bag, t) == CopiesIn(Promise("initGame", t, "fetch"), bag)
    + CopiesIn(Promise("handleRevealDismiss", t, "fetch"), bag)
    + CopiesIn(Promise("preloadNextStock", t, "fetch"), bag)

\* a load of initGame or handleRevealDismiss that returns null
LoadReturnsNull ==
    /\ lastCall'.op = "setLoading"
    /\ \E p \in InFlightOf({"initGame", "handleRevealDismiss"}) :
           p.how = "fetch" /\ CopiesIn(p, inFlight') < CopiesIn(p, inFlight)

\* C33: stock data is never fetched redundantly: no ticker has two fetches
\* in flight at the same time, no fetch is started for a ticker that is in
\* stockDataCache, and a load that fails returns null and caches nothing
C33_NoRedundantFetch ==
    /\ [](\A t \in AppTickers : FetchesInFlight(inFlight, t) <= 1)
    /\ [][\A t \in AppTickers :
            FetchesInFlight(inFlight', t) > FetchesInFlight(inFlight, t)
                => t \notin stockDataCache]_vars
    /\ [][LoadReturnsNull => stockDataCache' = stockDataCache]_vars

\* an instrument hand-off: the reveal card is showing, or it was dismissed
\* and the load of the next instrument has not settled
HandOff == showRevealCard \/ InFlightOf({"handleRevealDismiss"}) # {}

PlayerCalls == TurnCalls \cup {"switchStock"}

\* a step in which a promise of preloadNextStock settles
PreloadSettled ==
    \E p \in InFlightOf({"preloadNextStock"}) :
        CopiesIn(p, inFlight') < CopiesIn(p, inFlight)

\* C34: no player turn overlaps an instrument hand-off: from the reveal
\* card showing until the load of the next instrument settles no skip,
\* buy, sell or switchStock is called on the store; isLoading is true for
\* as long as a load is awaited, no such call is made while showRevealCard
\* or isLoading is true, and a settling preload changes no store field
C34_NoTurnDuringHandOff ==
    /\ [](InFlightOf({"initGame", "handleRevealDismiss"}) # {} => isLoading)
    /\ [][(HandOff => lastCall'.op \notin PlayerCalls)
          /\ (showRevealCard \/ isLoading => lastCall'.op \notin PlayerCalls)
          /\ (PreloadSettled => UNCHANGED storeVars)]_vars

\* an action key was pressed after a turn while the next instrument was
\* loading and a preload was in flight, and called nothing
C34_Witness ==
    /\ InFlightOf({"handleRevealDismiss"}) # {}
    /\ InFlightOf({"preloadNextStock"}) # {}
    /\ isLoading
    /\ currentStock # NullStock
    /\ sessionStats.totalTurns > 0
    /\ lastCall.op = "keydown"

====
